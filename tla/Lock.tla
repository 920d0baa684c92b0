-------------------------------- MODULE Lock --------------------------------
(***************************************************************************)
(* grelmicro/coordination/lock.py: the `Lock` primitive, used by asyncio   *)
(* tasks and, through `from_thread`, by worker threads, on top of any      *)
(* backend that implements LockBackend.                                    *)
(*                                                                         *)
(* A caller is named by what its ownership token is built from: id(task)   *)
(* or the thread ident.  Both are recycled by the interpreter, so when a   *)
(* caller ends the same name stands for the next one.  Every backend call  *)
(* is a request that is sent, served and answered; the answer may never    *)
(* arrive, and a request whose caller gave up may still be served.         *)
(***************************************************************************)
EXTENDS LockBackend, FiniteSets

CONSTANTS Tasks,     \* callers that are asyncio tasks
          Threads,   \* callers that are worker threads
          MayEnd,    \* callers that may end while holding the lock
          MaxFaults  \* bound on backend errors, cancellations and such ends

ASSUME LockAssumption ==
  /\ Tokens = Tasks \cup Threads
  /\ Tasks \cap Threads = {}
  /\ MayEnd \subseteq Tokens
  /\ MaxFaults \in Nat

VARIABLES held,     \* the markers _held_by_tasks and _held_by_threads
          pc,       \* pc[t]: the method t is inside of, or "out"
          req,      \* req[t]: t's request at the backend
          handle,   \* handle[t]: fencing token of t's LockHandle, 0 if none
          reentered, \* callers whose last call raised LockReentrantError
          orphan,   \* orphan[t]: request of t still travelling after t gave up
          kept,     \* history: the lease has not lapsed since t's last grant
          unknown,  \* history: t may not know what its last request did
          burnt,    \* history: fencing tokens of callers that have ended
          faults    \* faults so far

client == <<held, pc, req, handle, reentered, orphan, kept, unknown, burnt, faults>>
backend == <<holder, live, fence, reply>>
allVars == <<backend, client>>

Methods == {"acquire", "nowait", "extend", "release"}

Request(s, f) == [state |-> s, fence |-> f]
NoRequest == Request("none", 0)
Sent == Request("sent", 0)

LockInit ==
  /\ Init
  /\ held = {}
  /\ pc = [t \in Tokens |-> "out"]
  /\ req = [t \in Tokens |-> NoRequest]
  /\ handle = [t \in Tokens |-> 0]
  /\ reentered = {}
  /\ orphan = [t \in Tokens |-> "none"]
  /\ kept = [t \in Tokens |-> FALSE]
  /\ unknown = [t \in Tokens |-> FALSE]
  /\ burnt = {}
  /\ faults = 0

LockTypeOK ==
  /\ holder \in Tokens \cup {NoToken}
  /\ live \in BOOLEAN
  /\ fence \in 0..MaxFence
  /\ held \subseteq Tokens
  /\ pc \in [Tokens -> Methods \cup {"out", "sleep"}]
  /\ req \in [Tokens -> [state : Answers \cup {"none", "sent"}, fence : 0..MaxFence]]
  /\ handle \in [Tokens -> 0..MaxFence]
  /\ reentered \subseteq Tokens
  /\ orphan \in [Tokens -> {"none", "acquire", "release"}]
  /\ kept \in [Tokens -> BOOLEAN]
  /\ unknown \in [Tokens -> BOOLEAN]
  /\ burnt \subseteq 1..MaxFence
  /\ faults \in 0..MaxFaults
  /\ \A t \in Tokens : (pc[t] \in {"out", "sleep"}) <=> (req[t] = NoRequest)

-----------------------------------------------------------------------------
\* Calls, up to the first await.

Send(t, method) ==
  /\ pc' = [pc EXCEPT ![t] = method]
  /\ req' = [req EXCEPT ![t] = Sent]
  /\ reentered' = reentered \ {t}
  /\ UNCHANGED <<backend, held, handle, orphan, kept, unknown, burnt, faults>>

\* The call raises without asking the backend.
RaiseReentrant(t) ==
  /\ reentered' = reentered \cup {t}
  /\ UNCHANGED <<backend, held, pc, req, handle, orphan, kept, unknown, burnt, faults>>

RaiseNotOwned(t) ==
  /\ reentered' = reentered \ {t}
  /\ UNCHANGED <<backend, held, pc, req, handle, orphan, kept, unknown, burnt, faults>>

acquire(t) ==
  /\ pc[t] = "out"
  /\ \/ t \in held /\ RaiseReentrant(t)
     \/ t \notin held /\ Send(t, "acquire")

acquire_nowait(t) ==
  /\ pc[t] = "out"
  /\ \/ t \in held /\ RaiseReentrant(t)
     \/ t \notin held /\ Send(t, "nowait")

extend(t) ==
  /\ pc[t] = "out"
  /\ \/ t \notin held /\ RaiseNotOwned(t)
     \/ t \in held /\ Send(t, "extend")

\* `release` does not look at the marker: the backend decides.
release(t) == pc[t] = "out" /\ Send(t, "release")

-----------------------------------------------------------------------------
\* The backend serves a request.

ServeAcquire(t) ==
  /\ req[t] = Sent /\ pc[t] # "release"
  /\ Acquire(t)
  /\ req' = [req EXCEPT ![t] = Request(reply'.answer, reply'.fence)]
  /\ kept' = [kept EXCEPT ![t] = (holder' = t /\ live')]
  /\ unknown' = [unknown EXCEPT ![t] = (orphan[t] # "none")]
  /\ UNCHANGED <<held, pc, handle, reentered, orphan, burnt, faults>>

ServeRelease(t) ==
  /\ req[t] = Sent /\ pc[t] = "release"
  /\ TryRelease(t)
  /\ req' = [req EXCEPT ![t] = Request(reply'.answer, 0)]
  /\ kept' = [kept EXCEPT ![t] = FALSE]
  /\ unknown' = [unknown EXCEPT ![t] = (orphan[t] # "none")]
  /\ UNCHANGED <<held, pc, handle, reentered, orphan, burnt, faults>>

\* A request whose caller gave up reaches the backend after all.
ServeOrphan(t) ==
  /\ \/ orphan[t] = "acquire" /\ Acquire(t)
     \/ orphan[t] = "release" /\ TryRelease(t)
  /\ orphan' = [orphan EXCEPT ![t] = "none"]
  /\ UNCHANGED <<held, pc, req, handle, reentered, kept, unknown, burnt, faults>>

LeaseLapses ==
  /\ Lapse
  /\ kept' = [t \in Tokens |-> FALSE]
  /\ UNCHANGED <<held, pc, req, handle, reentered, orphan, unknown, burnt, faults>>

BackendVacates == Vacate /\ UNCHANGED client

-----------------------------------------------------------------------------
\* Calls, after the answer.

Leave(t) ==
  /\ pc' = [pc EXCEPT ![t] = "out"]
  /\ req' = [req EXCEPT ![t] = NoRequest]
  /\ UNCHANGED <<backend, reentered, orphan, kept, unknown, burnt, faults>>

\* The marker is set once the backend has granted.
Granted(t) ==
  /\ req[t].state = "granted"
  /\ held' = held \cup {t}
  /\ handle' = [handle EXCEPT ![t] = req[t].fence]
  /\ Leave(t)

\* A refused `acquire` sleeps for the retry interval, or raises TimeoutError
\* once its deadline has passed.
RefusedAcquire(t) ==
  /\ req[t].state = "refused" /\ pc[t] = "acquire"
  /\ \/ /\ pc' = [pc EXCEPT ![t] = "sleep"]
        /\ req' = [req EXCEPT ![t] = NoRequest]
        /\ UNCHANGED <<backend, reentered, orphan, kept, unknown, burnt, faults>>
     \/ Leave(t)
  /\ UNCHANGED <<held, handle>>

Retry(t) == pc[t] = "sleep" /\ Send(t, "acquire")

\* WouldBlockError from `acquire_nowait`, LockNotOwnedError from `extend`; the
\* latter leaves the marker as it is.
RefusedAtOnce(t) ==
  /\ req[t].state = "refused" /\ pc[t] \in {"nowait", "extend"}
  /\ Leave(t)
  /\ UNCHANGED <<held, handle>>

\* The marker is dropped whatever the backend answered.
Released(t) ==
  /\ req[t].state \in {"released", "not_owned"}
  /\ held' = held \ {t}
  /\ handle' = [handle EXCEPT ![t] = 0]
  /\ Leave(t)

-----------------------------------------------------------------------------
\* Faults.

Fault == faults < MaxFaults /\ faults' = faults + 1

\* The backend call raises, or the awaiting task is cancelled: the answer is
\* lost, and the request itself may still be on its way.  Markers are kept.
Fail(t) ==
  /\ req[t] # NoRequest /\ orphan[t] = "none"
  /\ Fault
  /\ orphan' = [orphan EXCEPT ![t] =
       IF req[t] # Sent THEN "none"
       ELSE IF pc[t] = "release" THEN "release" ELSE "acquire"]
  /\ pc' = [pc EXCEPT ![t] = "out"]
  /\ req' = [req EXCEPT ![t] = NoRequest]
  /\ unknown' = [unknown EXCEPT ![t] = TRUE]
  /\ UNCHANGED <<backend, held, handle, reentered, kept, burnt>>

\* A task cancelled while it sleeps between two attempts just leaves.
CancelSleep(t) ==
  /\ pc[t] = "sleep" /\ t \in Tasks
  /\ Leave(t)
  /\ UNCHANGED <<held, handle>>

HeldAfterEndPlainSets(t) == held
\* _held_by_tasks is a WeakSet and forgets a task when it is gone;
\* _held_by_threads is a plain set of idents.
HeldAfterEnd(t) == IF t \in Tasks THEN held \ {t} ELSE held

\* The caller ends and its name is recycled.
End(t) ==
  /\ pc[t] = "out" /\ t \in MayEnd
  /\ Fault
  /\ held' = HeldAfterEnd(t)
  /\ handle' = [handle EXCEPT ![t] = 0]
  /\ reentered' = reentered \ {t}
  /\ unknown' = [unknown EXCEPT ![t] = (@ \/ handle[t] # 0)]
  /\ burnt' = burnt \cup ({handle[t]} \ {0})
  /\ UNCHANGED <<backend, pc, req, orphan, kept>>

Backend(t) == ServeAcquire(t) \/ ServeRelease(t)

Resume(t) ==
  \/ Granted(t) \/ RefusedAcquire(t) \/ RefusedAtOnce(t)
  \/ Released(t) \/ Retry(t)

LockNext ==
  \/ \E t \in Tokens :
       \/ acquire(t) \/ acquire_nowait(t) \/ extend(t) \/ release(t)
       \/ Backend(t) \/ ServeOrphan(t) \/ Resume(t)
       \/ Fail(t) \/ CancelSleep(t) \/ End(t)
  \/ LeaseLapses
  \/ BackendVacates

\* Requests are served, the event loop resumes coroutines whose answer is in
\* or whose sleep is over, and leases run out.
Fairness ==
  /\ \A t \in Tokens : WF_allVars(Backend(t)) /\ WF_allVars(Resume(t))
  /\ WF_allVars(LeaseLapses)

LockSpec == LockInit /\ [][LockNext]_allVars

-----------------------------------------------------------------------------

\* No two callers ever hold a LockHandle with the same fencing token, so a
\* resource that keeps the highest token it saw serves one of them only:
\* whatever was lost, orphaned, retried or taken over in between.
FencingTokensDistinct ==
  \A t, u \in Tokens : t # u /\ handle[t] # 0 => handle[t] # handle[u]

\* Between calls, a caller whose last request was answered agrees with the
\* backend: its marker is set and its lease has not lapsed exactly when the
\* backend has it as the live holder.  So neither a timeout, a refusal, a
\* lost race nor a failed `extend` leaks a lease or a marker.
MarkerMatchesLease ==
  \A t \in Tokens : pc[t] = "out" /\ ~unknown[t] =>
    ((t \in held /\ kept[t]) <=> (holder = t /\ live))

\* A task that is told it re-entered the lock did acquire it and has not
\* released it.
TaskReentrantIsTrue ==
  \A t \in Tasks : t \in reentered => handle[t] # 0

\* Between calls the markers _held_by_* agree with the backend, and a task that is told
\* LockReentrantError does hold the lock.
MarkersAreTrue == MarkerMatchesLease /\ TaskReentrantIsTrue

Waiting(t) == pc[t] \in {"acquire", "sleep"}

\* lock.py on `extend`: "The handle for this lock with the same fencing token"
\* and "If the lease has expired ... this method raises `LockNotOwnedError`".
ExtendKeepsToken ==
  \A t \in Tokens :
    pc[t] = "extend" /\ req[t].state = "granted" => req[t].fence = handle[t]

\* errors.py and lock.py on LockReentrantError: "If the lock is already
\* acquired (nested usage is not supported)", for worker threads.
ThreadReentrantIsTrue ==
  \A t \in Threads : t \in reentered => handle[t] # 0

\* docs/architecture/coordination.md: "Different async tasks or threads produce
\* different tokens for the same lock": a later caller never shares the fencing
\* token an ended one was given.
EndedTokensStayUnique == \A t \in Tokens : handle[t] \notin burnt

=============================================================================
