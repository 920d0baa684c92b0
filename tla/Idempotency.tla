---------------------------- MODULE Idempotency ----------------------------
(***************************************************************************)
(* grelmicro/idempotency: one key, requests for it on several processes    *)
(* with the same or another payload, and the two records of the first      *)
(* execution: the fingerprint of its payload and its response, of which    *)
(* the fingerprint is written first and lives a Margin longer.             *)
(***************************************************************************)
EXTENDS Integers, FiniteSets

CONSTANTS Callers, Procs, Homes, Payloads, None,
          Distributed,   \* set of Booleans: has the app a lock backend
          TTL, Margin,   \* the + 1 of the fingerprint's lifetime
          MaxTime, MaxCalls

IdempotencyAssumption ==
  /\ IsFiniteSet(Callers) /\ Homes \subseteq [Callers -> Procs]
  /\ None \notin Callers /\ None \notin [payload : Payloads, expire : Nat]
  /\ Distributed \subseteq BOOLEAN
  /\ {TTL, Margin} \subseteq Nat \ {0} /\ {MaxTime, MaxCalls} \subseteq Nat

VARIABLES home, distributed, now,
          response, fingerprint, \* the two records
          local,     \* per process: the holder of the key's lock
          dlock,     \* the holder of the distributed lock
          call,      \* per caller: its block
          calls,     \* bound: blocks entered
          lapsed,    \* history: the lease ran out under a living holder
          wrong      \* history: a replay gave the answer to another payload

vars == <<home, distributed, now, response, fingerprint, local, dlock, call, calls, lapsed, wrong>>
config == <<home, distributed>>
records == <<response, fingerprint>>
locks == <<local, dlock>>

Idle == [pc |-> "idle"]
Live(r) == r # None /\ r.expire > now

TypeOK ==
  /\ home \in Homes /\ distributed \in Distributed /\ now \in 0..MaxTime
  /\ local \in [Procs -> Callers \cup {None}] /\ dlock \in Callers \cup {None}
  /\ calls \in 0..MaxCalls
  /\ \A c \in Callers : call[c].pc \in
       {"idle", "reading", "checking", "wanting", "dwait", "running", "fingerprinting",
        "storing", "leaving"}

Init ==
  /\ home \in Homes /\ distributed \in Distributed /\ now = 0
  /\ response = None /\ fingerprint = None
  /\ local = [p \in Procs |-> None] /\ dlock = None
  /\ call = [c \in Callers |-> Idle] /\ calls = 0
  /\ lapsed = FALSE /\ wrong = FALSE

Step(c, pc) == call' = [call EXCEPT ![c].pc = pc]

-----------------------------------------------------------------------------
\* _Block.__aenter__: look, take the local lock, look, take the distributed one, look.

__aenter__(c, payload) ==
  /\ call[c] = Idle /\ calls < MaxCalls
  /\ calls' = calls + 1
  /\ call' = [call EXCEPT ![c] = [pc |-> "reading", payload |-> payload, held |-> "nothing",
                                  seen |-> None, at |-> 0]]
  /\ UNCHANGED <<config, now, records, locks, lapsed, wrong>>

\* What follows a look that found nothing.
OnwardsLocally(c) == IF call[c].held = "nothing" THEN "wanting" ELSE "running"
Onwards(c) ==
  CASE call[c].held = "nothing" -> "wanting"
    [] call[c].held = "local" /\ distributed -> "dwait"
    [] OTHER -> "running"

\* _replay reads the response,
_replay(c) ==
  /\ call[c].pc = "reading"
  /\ IF Live(response)
     THEN call' = [call EXCEPT ![c].pc = "checking", ![c].seen = response]
     ELSE Step(c, Onwards(c))
  /\ UNCHANGED <<config, now, records, locks, calls, lapsed, wrong>>

\* _release: the distributed lock if this block has it, and then, whether or not that
\* raised, the local one.  A release that is lost leaves the lock to its lease.
Owns(c) == dlock = c /\ call[c].held = "both"
_release(c) ==
  /\ local' = [p \in Procs |-> IF local[p] = c THEN None ELSE local[p]]
  /\ dlock' \in IF Owns(c) THEN {None, c} ELSE {dlock}

\* and then the fingerprint: a conflict when there is one and it is another.
Conflicts(c) == Live(fingerprint) /\ fingerprint.payload # call[c].payload
\* The response is still there at the second look, and was written right after its
\* fingerprint.
Prompt(c) == Live(response) /\ response = call[c].seen /\ ~ response.slow
\* One execution at a time, by the distributed lock or in one process.
Exclusive ==
  IF distributed THEN ~ lapsed ELSE \A c, d \in Callers : home[c] = home[d]
check_fingerprint(c) ==
  /\ call[c].pc = "checking"
  /\ wrong' = (wrong \/ /\ ~ Conflicts(c) /\ Prompt(c) /\ Exclusive
                        /\ call[c].seen.payload # call[c].payload)
  /\ _release(c)
  /\ call' = [call EXCEPT ![c] = Idle]
  /\ UNCHANGED <<config, now, records, calls, lapsed>>

acquire_local(c) ==
  /\ call[c].pc = "wanting" /\ local[home[c]] = None
  /\ local' = [local EXCEPT ![home[c]] = c]
  /\ call' = [call EXCEPT ![c].pc = "reading", ![c].held = "local"]
  /\ UNCHANGED <<config, now, records, dlock, calls, lapsed, wrong>>

acquire_distributed(c) ==
  /\ call[c].pc = "dwait" /\ dlock = None
  /\ dlock' = c
  /\ call' = [call EXCEPT ![c].pc = "reading", ![c].held = "both"]
  /\ UNCHANGED <<config, now, records, local, calls, lapsed, wrong>>

\* wait_timeout ends, or the task is cancelled.
leave_early(c) ==
  /\ call[c].pc \in {"reading", "checking", "wanting", "dwait", "fingerprinting", "storing"}
  /\ _release(c)
  /\ call' = [call EXCEPT ![c] = Idle]
  /\ UNCHANGED <<config, now, records, calls, lapsed, wrong>>

-----------------------------------------------------------------------------
\* The body and _Block.__aexit__.

\* run and the decorator store what the factory returned; a block may store nothing, and
\* a body that raises stores nothing.
run(c) ==
  /\ call[c].pc = "running"
  /\ Step(c, "fingerprinting") \/ Step(c, "leaving")
  /\ UNCHANGED <<config, now, records, locks, calls, lapsed, wrong>>

\* _persist
persist_fingerprint(c) ==
  /\ call[c].pc = "fingerprinting"
  /\ fingerprint' = [payload |-> call[c].payload, expire |-> now + TTL + Margin]
  /\ call' = [call EXCEPT ![c].pc = "storing", ![c].at = now]
  /\ UNCHANGED <<config, now, response, locks, calls, lapsed, wrong>>

persist_response(c) ==
  /\ call[c].pc = "storing"
  /\ response' = [payload |-> call[c].payload, expire |-> now + TTL,
                  slow |-> now - call[c].at > Margin]
  /\ Step(c, "leaving")
  /\ UNCHANGED <<config, now, fingerprint, locks, calls, lapsed, wrong>>

__aexit__(c) ==
  /\ call[c].pc = "leaving"
  /\ _release(c)
  /\ call' = [call EXCEPT ![c] = Idle]
  /\ UNCHANGED <<config, now, records, calls, lapsed, wrong>>

-----------------------------------------------------------------------------
\* A process dies with its blocks and local locks; the distributed one stays.
crash(p) ==
  /\ \E c \in Callers : home[c] = p /\ call[c] # Idle
  /\ call' = [c \in Callers |-> IF home[c] = p THEN Idle ELSE call[c]]
  /\ local' = [local EXCEPT ![p] = None]
  /\ UNCHANGED <<config, now, records, dlock, calls, lapsed, wrong>>

lease_lapses ==
  /\ dlock # None
  /\ lapsed' = (lapsed \/ (call[dlock] # Idle /\ Owns(dlock)))
  /\ dlock' = None
  /\ UNCHANGED <<config, now, records, local, call, calls, wrong>>

Tick ==
  /\ now < MaxTime /\ now' = now + 1
  /\ UNCHANGED <<config, records, locks, call, calls, lapsed, wrong>>

Next ==
  \/ \E c \in Callers :
       \/ \E payload \in Payloads : __aenter__(c, payload)
       \/ _replay(c) \/ check_fingerprint(c) \/ acquire_local(c) \/ acquire_distributed(c)
       \/ leave_early(c) \/ run(c) \/ persist_fingerprint(c) \/ persist_response(c) \/ __aexit__(c)
  \/ \E p \in Procs : crash(p)
  \/ lease_lapses \/ Tick

Spec == Init /\ [][Next]_vars

-----------------------------------------------------------------------------
\* Properties.

Running == {c \in Callers : call[c].pc \in {"running", "fingerprinting", "storing"}}

\* With a lock backend and while leases last, a key is never executed twice at once, nor
\* while a response to it can be replayed, whatever crashes, waits run out and
\* cancellations come in between; without one the same holds of each process.
OneExecution ==
  /\ distributed /\ ~ lapsed =>
       Cardinality(Running) <= 1 /\ (Running # {} => ~ Live(response))
  /\ ~ distributed => \A p \in Procs : Cardinality({c \in Running : home[c] = p}) <= 1

\* Where executions exclude one another, a request is never answered with the response to
\* another payload while that response lives, provided that the two writes were at most a
\* Margin apart: the response never outlives the check that guards it.
ReplayMatches == ~ wrong

\* Whoever holds a local lock is in a block that will give it back: a wait that runs out,
\* a conflict and a distributed lock that was lost never leave it taken.
LocksComeBack ==
  \A p \in Procs : local[p] # None => call[local[p]] # Idle /\ home[local[p]] = p
=============================================================================
