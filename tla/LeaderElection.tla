--------------------------- MODULE LeaderElection ---------------------------
(***************************************************************************)
(* grelmicro/coordination/leaderelection.py: the renew loop of every       *)
(* worker, the local view it keeps, and `lead`, on top of a leader         *)
(* election backend that decides atomically (the memory, Redis and         *)
(* Postgres adapters).                                                     *)
(*                                                                         *)
(* Time is kept as ages and remaining times, which one Tick moves          *)
(* together, so that no bound on the clock is needed: `left` is what is    *)
(* left of the lease at the backend, age[w] is monotonic() -               *)
(* _state_updated_at, waited[w] the age of a backend call in flight and    *)
(* timer[w] the rest of the timeout of wait_lose_leader.                   *)
(***************************************************************************)
EXTENDS Integers

CONSTANTS Workers,
          Nobody,         \* no holder
          LeaseDuration,  \* lease_duration
          RenewDeadline,  \* renew_deadline
          BackendTimeout, \* backend_timeout
          MaxFaults       \* bound on failed calls, stops and crashes

\* LeaderElectionConfig._validate
ASSUME ConfigAssumption ==
  /\ Nobody \notin Workers
  /\ {LeaseDuration, RenewDeadline, BackendTimeout} \subseteq Nat \ {0}
  /\ RenewDeadline < LeaseDuration
  /\ BackendTimeout < RenewDeadline
  /\ MaxFaults \in Nat

\* What the validator does not ask for, and the default configuration just
\* meets (5 + 10 <= 15): a renewal that is answered as late as the timeout
\* allows is forgotten before its lease ends.
SafeTimings == BackendTimeout + RenewDeadline <= LeaseDuration

VARIABLES holder,   \* backend: worker whose lease it is, or Nobody
          left,     \* backend: time left of the lease
          pc,       \* pc[w]: where the service of w is
          req,      \* req[w]: w's call at the backend
          waited,   \* waited[w]: age of that call
          is,       \* is[w]: _is_leader
          age,      \* age[w]: age of _state_updated_at
          body,     \* body[w]: what `lead` is doing at w
          timer,    \* timer[w]: rest of wait_lose_leader's timeout
          orphans,  \* calls still travelling after their worker gave up
          faults    \* faults so far

store == <<holder, left>>
view == <<is, age>>
work == <<body, timer>>
vars == <<store, pc, req, waited, view, work, orphans, faults>>

TypeOK ==
  /\ holder \in Workers \cup {Nobody}
  /\ left \in 0..LeaseDuration
  /\ pc \in [Workers -> {"sleep", "call", "release", "stopped", "crashed"}]
  /\ req \in [Workers -> {"none", "sent", "mine", "other"}]
  /\ waited \in [Workers -> 0..BackendTimeout]
  /\ is \in [Workers -> BOOLEAN]
  /\ age \in [Workers -> 0..LeaseDuration]
  /\ body \in [Workers -> {"none", "waiting", "running"}]
  /\ timer \in [Workers -> 0..LeaseDuration]
  /\ orphans \subseteq Workers \X {"acquire", "release"}
  /\ faults \in 0..MaxFaults

Init ==
  /\ holder = Nobody
  /\ left = 0
  /\ pc = [w \in Workers |-> "sleep"]
  /\ req = [w \in Workers |-> "none"]
  /\ waited = [w \in Workers |-> 0]
  /\ is = [w \in Workers |-> FALSE]
  /\ age = [w \in Workers |-> 0]
  /\ body = [w \in Workers |-> "none"]
  /\ timer = [w \in Workers |-> 0]
  /\ orphans = {}
  /\ faults = 0

-----------------------------------------------------------------------------
\* The backend.

LiveIgnoresExpiry == holder # Nobody
Live == left > 0

\* acquire_or_renew: a live lease of somebody else is left alone.
AcquireOrRenew(w, mine) ==
  \/ /\ ~(Live /\ holder # w) /\ mine = TRUE
     /\ holder' = w /\ left' = LeaseDuration
  \/ /\ Live /\ holder # w /\ mine = FALSE
     /\ UNCHANGED store

\* release: only a live lease of w itself.
Release(w) ==
  \/ Live /\ holder = w /\ holder' = Nobody /\ left' = 0
  \/ ~(Live /\ holder = w) /\ UNCHANGED store

Serve(w) ==
  /\ req[w] = "sent"
  /\ \/ /\ pc[w] = "call"
        /\ \E mine \in BOOLEAN :
             /\ AcquireOrRenew(w, mine)
             /\ req' = [req EXCEPT ![w] = IF mine THEN "mine" ELSE "other"]
     \/ /\ pc[w] = "release"
        /\ Release(w)
        /\ req' = [req EXCEPT ![w] = "other"]
  /\ UNCHANGED <<pc, waited, view, work, orphans, faults>>

ServeOrphan(w) ==
  \/ /\ <<w, "acquire">> \in orphans
     /\ \E mine \in BOOLEAN : AcquireOrRenew(w, mine)
     /\ orphans' = orphans \ {<<w, "acquire">>}
     /\ UNCHANGED <<pc, req, waited, view, work, faults>>
  \/ /\ <<w, "release">> \in orphans
     /\ Release(w)
     /\ orphans' = orphans \ {<<w, "release">>}
     /\ UNCHANGED <<pc, req, waited, view, work, faults>>

-----------------------------------------------------------------------------
\* The local view.

DeadlineAtLeaseEnd(w) == age[w] >= LeaseDuration
is_renew_deadline_reached(w) == age[w] >= RenewDeadline

is_leader(w) == is[w] /\ ~is_renew_deadline_reached(w)

is_leader_confirmed_within(w, max_age) == is[w] /\ age[w] <= max_age

\* `lead` at w goes to b; the wait_lose_leader it then sits in has a timeout
\* of _seconds_before_expiration_deadline, reckoned from the stamp of age a.
Enter(w, b, a) ==
  /\ body' = [body EXCEPT ![w] = b]
  /\ timer' = [timer EXCEPT ![w] = IF b = "running" THEN LeaseDuration - a ELSE 0]

\* Notified, `lead` looks again: from wait_for_leader into the body, from
\* wait_lose_leader out of it.
LookAgain(w, leader) ==
  Enter(w, CASE body[w] = "waiting" /\ leader -> "running"
             [] body[w] = "running" /\ ~leader -> "none"
             [] OTHER -> body[w], 0)

\* _update_state: stamp the time; on a change, notify everyone who waits.
UpdateState(w, leader) ==
  /\ age' = [age EXCEPT ![w] = 0]
  /\ is' = [is EXCEPT ![w] = leader]
  /\ IF leader = is[w] THEN UNCHANGED work ELSE LookAgain(w, leader)

-----------------------------------------------------------------------------
\* The service.

\* _try_acquire_or_renew, up to its await.
Call(w) ==
  /\ pc[w] = "sleep"
  /\ pc' = [pc EXCEPT ![w] = "call"]
  /\ req' = [req EXCEPT ![w] = "sent"]
  /\ waited' = [waited EXCEPT ![w] = 0]
  /\ UNCHANGED <<store, view, work, orphans, faults>>

\* Its answer arrives within the timeout.
Respond(w) ==
  /\ pc[w] = "call" /\ req[w] \in {"mine", "other"}
  /\ UpdateState(w, req[w] = "mine")
  /\ pc' = [pc EXCEPT ![w] = "sleep"]
  /\ req' = [req EXCEPT ![w] = "none"]
  /\ waited' = [waited EXCEPT ![w] = 0]
  /\ UNCHANGED <<store, orphans, faults>>

Fault == faults < MaxFaults /\ faults' = faults + 1

\* A call w gives up on may still reach the backend.
GiveUp(w) ==
  \/ req[w] = "sent" /\ orphans' = orphans \cup
       {<<w, IF pc[w] = "release" THEN "release" ELSE "acquire">>}
  \/ UNCHANGED orphans

\* The except branch: leadership is dropped once the renew deadline passed.
DropIfOverdue(w) ==
  IF is_renew_deadline_reached(w) THEN UpdateState(w, FALSE)
                                  ELSE UNCHANGED <<view, work>>

\* The call raises, or the timeout cuts it off.
Fail(w) ==
  /\ pc[w] = "call"
  /\ Fault
  /\ GiveUp(w)
  /\ DropIfOverdue(w)
  /\ pc' = [pc EXCEPT ![w] = "sleep"]
  /\ req' = [req EXCEPT ![w] = "none"]
  /\ waited' = [waited EXCEPT ![w] = 0]
  /\ UNCHANGED store

\* Graceful stop or cancellation: the finally block asks for a release.  The
\* local view is left as it was.
Stop(w) ==
  /\ pc[w] \in {"sleep", "call"}
  /\ Fault
  /\ GiveUp(w)
  /\ pc' = [pc EXCEPT ![w] = "release"]
  /\ req' = [req EXCEPT ![w] = "sent"]
  /\ waited' = [waited EXCEPT ![w] = 0]
  /\ UNCHANGED <<store, view, work>>

\* The release is answered, or fails and is only logged.
Stopped(w) ==
  /\ pc[w] = "release"
  /\ \/ req[w] # "sent" /\ UNCHANGED <<orphans, faults>>
     \/ req[w] = "sent" /\ Fault /\ GiveUp(w)
  /\ pc' = [pc EXCEPT ![w] = "stopped"]
  /\ req' = [req EXCEPT ![w] = "none"]
  /\ waited' = [waited EXCEPT ![w] = 0]
  /\ UNCHANGED <<store, view, work>>

\* The process dies: nothing is released, nothing is remembered.
Crash(w) ==
  /\ pc[w] # "crashed"
  /\ Fault
  /\ GiveUp(w)
  /\ pc' = [pc EXCEPT ![w] = "crashed"]
  /\ req' = [req EXCEPT ![w] = "none"]
  /\ waited' = [waited EXCEPT ![w] = 0]
  /\ is' = [is EXCEPT ![w] = FALSE]
  /\ Enter(w, "none", 0)
  /\ UNCHANGED <<store, age>>

-----------------------------------------------------------------------------
\* `lead`.

Lead(w) ==
  /\ pc[w] # "crashed" /\ body[w] = "none"
  /\ Enter(w, IF is_leader(w) THEN "running" ELSE "waiting", age[w])
  /\ UNCHANGED <<store, pc, req, waited, view, orphans, faults>>

WorkDone(w) ==
  /\ body[w] = "running"
  /\ Enter(w, "none", 0)
  /\ UNCHANGED <<store, pc, req, waited, view, orphans, faults>>

\* wait_lose_leader times out and looks again.
TimerFires(w) ==
  /\ body[w] = "running" /\ timer[w] = 0
  /\ Enter(w, IF is_leader(w) THEN "running" ELSE "none", age[w])
  /\ UNCHANGED <<store, pc, req, waited, view, orphans, faults>>

\* A call never outlives its timeout, and timers fire on time.
Due(w) ==
  \/ req[w] # "none" /\ waited[w] = BackendTimeout
  \/ body[w] = "running" /\ timer[w] = 0

Less(n) == IF n = 0 THEN 0 ELSE n - 1

Tick ==
  /\ \A w \in Workers : ~Due(w)
  /\ left' = Less(left)
  /\ waited' = [w \in Workers |-> IF req[w] = "none" THEN 0 ELSE waited[w] + 1]
  /\ age' = [w \in Workers |-> IF age[w] = LeaseDuration THEN age[w] ELSE age[w] + 1]
  /\ timer' = [w \in Workers |-> Less(timer[w])]
  /\ UNCHANGED <<holder, pc, req, is, body, orphans, faults>>

Service(w) == Call(w) \/ Serve(w) \/ Respond(w) \/ Stopped(w)

Next ==
  \/ \E w \in Workers :
       \/ Service(w) \/ ServeOrphan(w)
       \/ Fail(w) \/ Stop(w) \/ Crash(w)
       \/ Lead(w) \/ WorkDone(w) \/ TimerFires(w)
  \/ Tick

Spec == Init /\ [][Next]_vars

\* Time passes, the loop wakes up, timers fire, and a backend that has not
\* failed answers.
Fairness ==
  /\ WF_vars(Tick)
  /\ \A w \in Workers :
       /\ WF_vars(Call(w)) /\ WF_vars(Serve(w)) /\ WF_vars(Respond(w))
       /\ WF_vars(Stopped(w)) /\ WF_vars(TimerFires(w))

FairSpec == Spec /\ Fairness

-----------------------------------------------------------------------------

InService(w) == pc[w] \in {"sleep", "call"}

\* Two workers whose service is running never both answer True to is_leader(),
\* however late answers arrive and whichever calls are lost or late.
AtMostOneLeader ==
  \A v, w \in Workers :
    InService(v) /\ InService(w) /\ is_leader(v) /\ is_leader(w) => v = w

\* A confirmation younger than what the timeout leaves of the lease is a fact
\* at the backend: is_leader_confirmed_within never lies to a worker in
\* service when max_age < lease_duration - backend_timeout.
ConfirmedIsHolder ==
  \A w \in Workers, max_age \in 0..LeaseDuration :
    /\ InService(w) /\ is_leader_confirmed_within(w, max_age)
    /\ max_age + BackendTimeout < LeaseDuration
    => holder = w /\ Live

\* After stops, crashes and lost calls, a worker that stays in service finds
\* the lease taken over, by itself or by another one, and is told so.
LeadershipRecovers ==
  (\E w \in Workers : InService(w)) ~>
    \/ \E w \in Workers : InService(w) /\ is_leader(w)
    \/ \A w \in Workers : ~InService(w)

\* `lead`: "The moment leadership is lost the task is cancelled, so no stale
\* work outlives the lease": while another worker has the lease, no body of a
\* worker in service runs, unless it is to be cancelled this very moment.
NoStaleWork ==
  \A w \in Workers :
    body[w] = "running" /\ timer[w] > 0 /\ InService(w) =>
      ~(holder \in Workers \ {w} /\ Live)

\* `wait_for_leader`: "Wait until the current worker is the leader": nobody
\* waits for ever on a worker that is the leader for good.
WaiterIsWoken ==
  \A w \in Workers : ~<>[](body[w] = "waiting" /\ is_leader(w))

=============================================================================
