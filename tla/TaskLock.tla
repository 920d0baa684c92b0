------------------------------ MODULE TaskLock ------------------------------
(***************************************************************************)
(* grelmicro/coordination/tasklock.py: the lock around a scheduled task,   *)
(* which stays held for `min_hold_duration` after it was acquired, however *)
(* early the body ends.  One lock name, several workers each with its own  *)
(* TaskLock object, used by asyncio tasks or, through `from_thread`, by    *)
(* worker threads.  The clock is explicit: requests take time to be        *)
(* served and answers take time to arrive.                                 *)
(***************************************************************************)
EXTENDS Integers, FiniteSets

CONSTANTS Workers,     \* TaskLock objects, one per worker process
          Tasks,       \* asyncio tasks that enter a lock
          Threads,     \* worker threads that enter a lock
          worker,      \* worker[e]: the worker process e runs in
          MinHolds,    \* values min_hold_duration is configured to
          Lease,       \* lease_duration
          MaxTime,     \* bound on the clock
          MaxEntries,  \* bound on exits of each TaskLock, hence on nonces
          MaxFaults,   \* bound on failed backend calls and cancellations
          None         \* Python's None

Entrants == Tasks \cup Threads

Tokens == Workers \X (Tasks \cup Workers) \X (0..MaxEntries)

TaskLockAssumption ==
  /\ worker \in [Entrants -> Workers]
  /\ Tasks \cap (Threads \cup Workers) = {}
  /\ MinHolds \subseteq Nat \ {0} /\ MinHolds # {}
  /\ \A m \in MinHolds : m <= Lease  \* TaskLockConfig._validate
  /\ {Lease, MaxTime, MaxEntries, MaxFaults} \subseteq Nat
  /\ None \notin Nat /\ None \notin Tokens

VARIABLES now,          \* the clock
          owner,        \* backend: token of the holder, or None
          expire_at,    \* backend: end of its lease
          min_hold,     \* min_hold[w]: configured min_hold_duration
          acquired_at,  \* acquired_at[w], or None
          nonce,        \* nonce[w]: the token nonce
          pc,           \* pc[e]: where e is
          req,          \* req[e]: e's request at the backend
          entered,      \* history: min_hold_duration when e entered
          orphans,      \* requests that still travel after their caller gave up
          granted,      \* history: when the backend granted the last body that began
          faults        \* faults so far

object == <<min_hold, acquired_at, nonce>>
store == <<owner, expire_at>>
vars == <<now, store, object, pc, req, entered, orphans, granted, faults>>

\* A task's token names the task.  A thread's is built on the event loop
\* (generate_thread_token inside do_thread_enter), so it names the loop.
Token(e) == <<worker[e], IF e \in Tasks THEN e ELSE worker[e], nonce[worker[e]]>>

Requests == [op : {"acquire", "release"}, token : Tokens, duration : 0..Lease,
             state : {"sent", "yes", "no"}, at : 0..MaxTime]

NoRequest == [state |-> "none"]

\* `at` is a history field: when the request was served.
Ask(op, t, d) == [op |-> op, token |-> t, duration |-> d, state |-> "sent", at |-> 0]

Init ==
  /\ now = 0
  /\ owner = None /\ expire_at = 0
  /\ min_hold \in [Workers -> MinHolds]
  /\ acquired_at = [w \in Workers |-> None]
  /\ nonce = [w \in Workers |-> 0]
  /\ pc = [e \in Entrants |-> "out"]
  /\ req = [e \in Entrants |-> NoRequest]
  /\ entered = [e \in Entrants |-> 0]
  /\ orphans = {}
  /\ granted = None
  /\ faults = 0

TypeOK ==
  /\ now \in 0..MaxTime
  /\ owner \in Tokens \cup {None}
  /\ expire_at \in 0..(now + Lease)
  /\ min_hold \in [Workers -> MinHolds]
  /\ acquired_at \in [Workers -> 0..now \cup {None}]
  /\ nonce \in [Workers -> 0..MaxEntries]
  /\ pc \in [Entrants -> {"out", "enter", "body", "refresh", "exit"}]
  /\ req \in [Entrants -> Requests \cup {NoRequest}]
  /\ entered \in [Entrants -> MinHolds \cup {0}]
  /\ orphans \subseteq Requests
  /\ granted \in 0..now \cup {None}
  /\ faults \in 0..MaxFaults
  /\ \A e \in Entrants : (pc[e] \in {"out", "body"}) <=> (req[e] = NoRequest)

-----------------------------------------------------------------------------
\* The backend, as its adapters decide: one step per request.

Free == owner = None \/ expire_at < now

\* The backend's answer to request r, with its effect on the store.
Serve(r, yes) ==
  \/ /\ r.op # "release" /\ (Free \/ owner = r.token) /\ yes = TRUE
     /\ owner' = r.token /\ expire_at' = now + r.duration
  \/ /\ r.op # "release" /\ ~(Free \/ owner = r.token) /\ yes = FALSE
     /\ UNCHANGED store
  \/ /\ r.op = "release" /\ owner = r.token /\ ~Free /\ yes = TRUE
     /\ owner' = None /\ expire_at' = 0
  \/ /\ r.op = "release" /\ ~(owner = r.token /\ ~Free) /\ yes = FALSE
     /\ UNCHANGED store

ServeRequest(e) ==
  /\ req[e].state = "sent"
  /\ \E yes \in BOOLEAN :
       /\ Serve(req[e], yes)
       /\ req' = [req EXCEPT ![e].state = IF yes THEN "yes" ELSE "no", ![e].at = now]
  /\ UNCHANGED <<now, object, pc, entered, orphans, granted, faults>>

ServeOrphan(r) ==
  /\ r \in orphans
  /\ \E yes \in BOOLEAN : Serve(r, yes)
  /\ orphans' = orphans \ {r}
  /\ UNCHANGED <<now, object, pc, req, entered, granted, faults>>

-----------------------------------------------------------------------------

\* __aenter__, do_thread_enter: LockReentrantError while acquired_at is set
\* (the entrant stays out), else ask for the lock.
enter(e) ==
  /\ pc[e] = "out"
  /\ acquired_at[worker[e]] = None
  /\ pc' = [pc EXCEPT ![e] = "enter"]
  /\ req' = [req EXCEPT ![e] = Ask("acquire", Token(e), Lease)]
  /\ UNCHANGED <<now, store, object, entered, orphans, granted, faults>>

Answered(e, method, state) == pc[e] = method /\ req[e].state = state

Resume(e, place) ==
  /\ pc' = [pc EXCEPT ![e] = place]
  /\ req' = [req EXCEPT ![e] = NoRequest]
  /\ UNCHANGED <<now, store, orphans, faults>>

\* do_acquire stamps acquired_at when the answer arrives.
Entered(e) ==
  /\ Answered(e, "enter", "yes")
  /\ acquired_at' = [acquired_at EXCEPT ![worker[e]] = now]
  /\ entered' = [entered EXCEPT ![e] = min_hold[worker[e]]]
  /\ granted' = req[e].at
  /\ Resume(e, "body")
  /\ UNCHANGED <<min_hold, nonce>>

\* WouldBlockError
WouldBlock(e) ==
  /\ Answered(e, "enter", "no")
  /\ Resume(e, "out")
  /\ UNCHANGED <<object, entered, granted>>

refresh(e) ==
  /\ pc[e] = "body"
  /\ acquired_at[worker[e]] # None
  /\ pc' = [pc EXCEPT ![e] = "refresh"]
  /\ req' = [req EXCEPT ![e] = Ask("acquire", Token(e), Lease)]
  /\ UNCHANGED <<now, store, object, entered, orphans, granted, faults>>

\* LockNotOwnedError or not, the body goes on.
Refreshed(e) ==
  /\ pc[e] = "refresh" /\ req[e].state \in {"yes", "no"}
  /\ Resume(e, "body")
  /\ UNCHANGED <<object, entered, granted>>

NonceKept(w) == nonce[w]
NextNonce(w) == nonce[w] + 1

Remaining(hold, elapsed) == hold - elapsed

\* __aexit__, do_exit: release after min_hold, else hold on for the rest of it.
exit(e) ==
  LET w == worker[e]
      elapsed == now - acquired_at[w]
  IN
  /\ pc[e] = "body"
  /\ \/ /\ acquired_at[w] = None  \* LockNotOwnedError
        /\ pc' = [pc EXCEPT ![e] = "out"]
        /\ UNCHANGED <<req, object>>
     \/ /\ acquired_at[w] # None /\ nonce[w] < MaxEntries
        /\ acquired_at' = [acquired_at EXCEPT ![w] = None]
        /\ nonce' = [nonce EXCEPT ![w] = NextNonce(w)]
        /\ pc' = [pc EXCEPT ![e] = "exit"]
        /\ req' = [req EXCEPT ![e] =
             IF elapsed >= min_hold[w]
             THEN Ask("release", Token(e), 0)
             ELSE Ask("acquire", Token(e), Remaining(min_hold[w], elapsed))]
        /\ UNCHANGED min_hold
  /\ UNCHANGED <<now, store, entered, orphans, granted, faults>>

\* Whether the backend agreed or LockNotOwnedError is raised, e is out.
Exited(e) ==
  /\ pc[e] = "exit" /\ req[e].state \in {"yes", "no"}
  /\ Resume(e, "out")
  /\ UNCHANGED <<object, entered, granted>>

\* reconfigure publishes a new min_hold_duration at any time.
reconfigure(w) ==
  /\ \E m \in MinHolds \ {min_hold[w]} : min_hold' = [min_hold EXCEPT ![w] = m]
  /\ UNCHANGED <<now, store, acquired_at, nonce, pc, req, entered, orphans, granted, faults>>

\* The backend call fails or the caller is cancelled.  A request that was not
\* served yet may still arrive.
Fail(e) ==
  /\ req[e] # NoRequest
  /\ faults < MaxFaults
  /\ faults' = faults + 1
  /\ \/ req[e].state = "sent" /\ orphans' = orphans \cup {req[e]}
     \/ UNCHANGED orphans
  /\ pc' = [pc EXCEPT ![e] = IF pc[e] = "refresh" THEN "body" ELSE "out"]
  /\ req' = [req EXCEPT ![e] = NoRequest]
  /\ UNCHANGED <<now, store, object, entered, granted>>

Tick ==
  /\ now < MaxTime
  /\ now' = now + 1
  /\ UNCHANGED <<store, object, pc, req, entered, orphans, granted, faults>>

Next ==
  \/ \E e \in Entrants :
       \/ enter(e) \/ Entered(e) \/ WouldBlock(e)
       \/ refresh(e) \/ Refreshed(e)
       \/ exit(e) \/ Exited(e)
       \/ ServeRequest(e) \/ Fail(e)
  \/ \E r \in orphans : ServeOrphan(r)
  \/ \E w \in Workers : reconfigure(w)
  \/ Tick

Spec == Init /\ [][Next]_vars

-----------------------------------------------------------------------------

Apart(s, t, d) == s - t >= d \/ t - s >= d

\* Threads of one worker present the same token, and can enter together: see
\* ThreadsExclude below.
OneThreadEach == \A e, f \in Threads : worker[e] = worker[f] => e = f

\* The purpose of the lock: the grants of two bodies that ran, on whatever
\* worker and however short they were, lie at least min_hold_duration apart at
\* the backend, in spite of slow and lost answers and of late requests, as long as
\* no two threads share a TaskLock.
MinHoldSeparation ==
  [][OneThreadEach =>
       \A e \in Entrants : pc[e] = "enter" /\ pc'[e] = "body" /\ granted # None =>
         \E m \in MinHolds : Apart(req[e].at, granted, m)]_pc

\* The TaskLock docstring: "An exit re-acquire uses the config the call entered
\* with."
ExitUsesEnteredConfig ==
  [][\A e \in Entrants :
       pc[e] = "body" /\ pc'[e] = "exit" =>
         (req'[e].op = "release" <=> now - acquired_at[worker[e]] >= entered[e])]_pc

\* The do_thread_enter docstring: "the reentrant check, token generation, and
\* backend acquire are atomic with respect to other threads": two threads are
\* never both inside while the first one's lease still runs.
ThreadsExclude ==
  [][\A e \in Threads : pc[e] = "enter" /\ pc'[e] = "body" =>
       \A f \in Threads \ {e} : pc[f] = "body" => granted + Lease < now]_pc

=============================================================================
