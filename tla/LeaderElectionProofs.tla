------------------------ MODULE LeaderElectionProofs ------------------------
(***************************************************************************)
(* Leadership is exclusive for every number of workers, every timing the   *)
(* configuration accepts and every pattern of faults.                      *)
(*                                                                         *)
(* The argument: what a worker believes is tied to what is left of its     *)
(* lease at the backend.  A grant that travels back has lost at most its   *)
(* own travelling time of the lease (GrantInFlight), so a view of age a    *)
(* stands for a lease that has at least LeaseDuration - BackendTimeout - a *)
(* left (ViewIsBacked).  Nobody can take a live lease over, and a late     *)
(* release only ever comes from a worker that is out of service            *)
(* (ReleaseIsLast).                                                        *)
(***************************************************************************)
EXTENDS LeaderElection, TLAPS

\* A view that is young enough stands for a lease that is still running.
ViewIsBacked ==
  \A w \in Workers :
    is[w] /\ InService(w) /\ age[w] + BackendTimeout < LeaseDuration =>
      holder = w /\ left + age[w] + BackendTimeout >= LeaseDuration

\* A grant on its way back stands for a lease that ran since it was given.
GrantInFlight ==
  \A w \in Workers :
    pc[w] = "call" /\ req[w] = "mine" =>
      holder = w /\ left + waited[w] >= LeaseDuration

\* Releases that outlive their worker's patience come from retired workers.
ReleaseIsLast ==
  \A w \in Workers : <<w, "release">> \in orphans => ~InService(w)

IInv == TypeOK /\ ViewIsBacked /\ GrantInFlight /\ ReleaseIsLast

\* No worker believes or is told anything in an initial state.
LEMMA InitIInv == Init => IInv
  BY ConfigAssumption
  DEF Init, IInv, TypeOK, ViewIsBacked, GrantInFlight, ReleaseIsLast, InService

\* acquire_or_renew never shortens or takes over a lease that is running.
LEMMA AcquireKeepsLiveLease ==
  ASSUME TypeOK, NEW w \in Workers, NEW mine \in BOOLEAN, AcquireOrRenew(w, mine)
  PROVE  /\ holder' \in Workers \cup {Nobody}
         /\ left' \in 0..LeaseDuration
         /\ mine => holder' = w /\ left' = LeaseDuration
         /\ \A v \in Workers : holder = v /\ left > 0 => holder' = v /\ left' >= left
  BY ConfigAssumption DEF AcquireOrRenew, TypeOK, Live, store

\* release touches only the lease of the worker that asks.
LEMMA ReleaseKeepsOthers ==
  ASSUME TypeOK, NEW w \in Workers, Release(w)
  PROVE  /\ holder' \in Workers \cup {Nobody}
         /\ left' \in 0..LeaseDuration
         /\ \A v \in Workers \ {w} : holder = v => holder' = v /\ left' = left
  BY ConfigAssumption DEF Release, TypeOK, Live, store

\* _update_state: the stamp is fresh, nothing but the view of w changes.
LEMMA UpdateStateEffect ==
  ASSUME TypeOK, NEW w \in Workers, NEW leader \in BOOLEAN, UpdateState(w, leader)
  PROVE  /\ age' = [age EXCEPT ![w] = 0]
         /\ is' = [is EXCEPT ![w] = leader]
         /\ body' \in [Workers -> {"none", "waiting", "running"}]
         /\ timer' \in [Workers -> 0..LeaseDuration]
  BY ConfigAssumption DEF UpdateState, LookAgain, Enter, TypeOK, work

\* Every step preserves the inductive invariant.
LEMMA NextIInv == IInv /\ [Next]_vars => IInv'
<1> SUFFICES ASSUME IInv, [Next]_vars PROVE IInv'
  OBVIOUS
<1> USE ConfigAssumption DEF IInv
<1>1. CASE UNCHANGED vars
  BY <1>1 DEF vars, store, view, work, TypeOK, ViewIsBacked, GrantInFlight, ReleaseIsLast, InService
<1>2. ASSUME NEW w \in Workers, Call(w) PROVE IInv'
  BY <1>2 DEF Call, store, view, work, TypeOK, ViewIsBacked, GrantInFlight, ReleaseIsLast, InService
<1>3. ASSUME NEW w \in Workers, Serve(w) PROVE IInv'
  <2>1. CASE pc[w] = "call"
    <3>1. PICK mine \in BOOLEAN :
            /\ AcquireOrRenew(w, mine)
            /\ req' = [req EXCEPT ![w] = IF mine THEN "mine" ELSE "other"]
      BY <1>3, <2>1 DEF Serve
    <3>2. UNCHANGED <<pc, waited, is, age, body, timer, orphans, faults>>
      BY <1>3 DEF Serve, view, work
    <3>3. TypeOK'
      BY <3>1, <3>2, AcquireKeepsLiveLease DEF TypeOK
    <3>4. ViewIsBacked'
      BY <3>1, <3>2, AcquireKeepsLiveLease DEF ViewIsBacked, InService, TypeOK
    <3>5. GrantInFlight'
      BY <3>1, <3>2, AcquireKeepsLiveLease DEF GrantInFlight, TypeOK
    <3>6. ReleaseIsLast'
      BY <3>2 DEF ReleaseIsLast, InService
    <3> QED BY <3>3, <3>4, <3>5, <3>6
  <2>2. CASE pc[w] = "release"
    <3>1. /\ Release(w) /\ req' = [req EXCEPT ![w] = "other"]
          /\ UNCHANGED <<pc, waited, is, age, body, timer, orphans, faults>>
      BY <1>3, <2>2 DEF Serve, view, work
    <3>2. TypeOK' /\ ReleaseIsLast'
      BY <3>1, ReleaseKeepsOthers DEF TypeOK, ReleaseIsLast, InService
    <3>3. ViewIsBacked' /\ GrantInFlight'
      BY <2>2, <3>1, ReleaseKeepsOthers DEF ViewIsBacked, GrantInFlight, InService, TypeOK
    <3> QED BY <3>2, <3>3
  <2> QED BY <1>3, <2>1, <2>2 DEF Serve
<1>4. ASSUME NEW w \in Workers, ServeOrphan(w) PROVE IInv'
  <2>0. UNCHANGED <<pc, req, waited, is, age, body, timer, faults>> /\ orphans' \subseteq orphans
    BY <1>4 DEF ServeOrphan, view, work
  <2>1. ASSUME NEW mine \in BOOLEAN, AcquireOrRenew(w, mine) PROVE IInv'
    <3>1. TypeOK' /\ ReleaseIsLast'
      BY <2>0, <2>1, AcquireKeepsLiveLease DEF TypeOK, ReleaseIsLast, InService
    <3>2. ViewIsBacked' /\ GrantInFlight'
      BY <2>0, <2>1, AcquireKeepsLiveLease DEF ViewIsBacked, GrantInFlight, InService, TypeOK
    <3> QED BY <3>1, <3>2
  <2>2. CASE <<w, "release">> \in orphans /\ Release(w)
    <3>1. TypeOK' /\ ReleaseIsLast'
      BY <2>0, <2>2, ReleaseKeepsOthers DEF TypeOK, ReleaseIsLast, InService
    <3>2. ~InService(w)
      BY <2>2 DEF ReleaseIsLast
    <3>3. ViewIsBacked' /\ GrantInFlight'
      BY <2>0, <2>2, <3>2, ReleaseKeepsOthers DEF ViewIsBacked, GrantInFlight, InService, TypeOK
    <3> QED BY <3>1, <3>3
  <2> QED BY <1>4, <2>1, <2>2 DEF ServeOrphan
<1>5. ASSUME NEW w \in Workers, Respond(w) PROVE IInv'
  <2>1. /\ UpdateState(w, req[w] = "mine")
        /\ pc[w] = "call" /\ req[w] \in {"mine", "other"}
        /\ pc' = [pc EXCEPT ![w] = "sleep"]
        /\ req' = [req EXCEPT ![w] = "none"]
        /\ waited' = [waited EXCEPT ![w] = 0]
        /\ UNCHANGED <<holder, left, orphans, faults>>
    BY <1>5 DEF Respond, store
  <2> DEFINE leader == req[w] = "mine"
  <2>a. /\ leader \in BOOLEAN
        /\ UpdateState(w, leader)
    BY <2>1
  <2>b. leader => holder = w /\ left + waited[w] >= LeaseDuration
    BY <2>1 DEF GrantInFlight
  <2> HIDE DEF leader
  <2>c. /\ age' = [age EXCEPT ![w] = 0]
        /\ is' = [is EXCEPT ![w] = leader]
        /\ body' \in [Workers -> {"none", "waiting", "running"}]
        /\ timer' \in [Workers -> 0..LeaseDuration]
    BY <2>a, UpdateStateEffect
  <2>2. TypeOK'
    BY <2>1, <2>a, <2>c DEF TypeOK
  <2>3. ViewIsBacked'
    BY <2>1, <2>b, <2>c DEF ViewIsBacked, InService, TypeOK
  <2>4. GrantInFlight' /\ ReleaseIsLast'
    BY <2>1 DEF GrantInFlight, ReleaseIsLast, InService, TypeOK
  <2> QED BY <2>2, <2>3, <2>4
<1>6. ASSUME NEW w \in Workers, Fail(w) PROVE IInv'
  <2>1. /\ pc[w] = "call"
        /\ pc' = [pc EXCEPT ![w] = "sleep"]
        /\ req' = [req EXCEPT ![w] = "none"]
        /\ waited' = [waited EXCEPT ![w] = 0]
        /\ UNCHANGED <<holder, left>>
        /\ faults' \in 0..MaxFaults
    BY <1>6 DEF Fail, Fault, store, TypeOK
  <2>g. orphans' \subseteq orphans \cup {<<w, "acquire">>}
    BY <1>6 DEF Fail, GiveUp
  <2>2. \/ UNCHANGED <<is, age, body, timer>>
        \/ UpdateState(w, FALSE)
    BY <1>6 DEF Fail, DropIfOverdue, view, work
  <2>3. /\ is' \in [Workers -> BOOLEAN] /\ age' \in [Workers -> 0..LeaseDuration]
        /\ body' \in [Workers -> {"none", "waiting", "running"}]
        /\ timer' \in [Workers -> 0..LeaseDuration]
        /\ \A v \in Workers : is'[v] => is[v] /\ age'[v] = age[v]
    <3>1. CASE UNCHANGED <<is, age, body, timer>>
      BY <3>1 DEF TypeOK
    <3>2. CASE UpdateState(w, FALSE)
      <4>1. /\ age' = [age EXCEPT ![w] = 0]
            /\ is' = [is EXCEPT ![w] = FALSE]
            /\ body' \in [Workers -> {"none", "waiting", "running"}]
            /\ timer' \in [Workers -> 0..LeaseDuration]
        BY <3>2, UpdateStateEffect
      <4> QED BY <4>1 DEF TypeOK
    <3> QED BY <2>2, <3>1, <3>2
  <2>o. orphans' \subseteq Workers \X {"acquire", "release"}
    <3>1. <<w, "acquire">> \in Workers \X {"acquire", "release"}
      OBVIOUS
    <3>2. orphans \subseteq Workers \X {"acquire", "release"}
      BY DEF TypeOK
    <3> QED BY <2>g, <3>1, <3>2
  <2>4. TypeOK'
    <3>1. /\ holder' \in Workers \cup {Nobody} /\ left' \in 0..LeaseDuration
          /\ pc' \in [Workers -> {"sleep", "call", "release", "stopped", "crashed"}]
          /\ req' \in [Workers -> {"none", "sent", "mine", "other"}]
          /\ waited' \in [Workers -> 0..BackendTimeout]
      BY <2>1 DEF TypeOK
    <3> QED BY <2>1, <2>3, <2>o, <3>1, Zenon DEF TypeOK
  <2>5. ViewIsBacked'
    BY <2>1, <2>3 DEF ViewIsBacked, InService, TypeOK
  <2>6. GrantInFlight' /\ ReleaseIsLast'
    BY <2>1, <2>g DEF GrantInFlight, ReleaseIsLast, InService, TypeOK
  <2> QED BY <2>4, <2>5, <2>6
<1>7. ASSUME NEW w \in Workers, Stop(w) \/ Stopped(w) \/ Crash(w) PROVE IInv'
  <2>1. /\ pc' \in [Workers -> {"sleep", "call", "release", "stopped", "crashed"}]
        /\ pc'[w] \notin {"sleep", "call"}
        /\ \A v \in Workers \ {w} : pc'[v] = pc[v] /\ is'[v] = is[v] /\ req'[v] = req[v]
        /\ req' \in [Workers -> {"none", "sent", "mine", "other"}]
        /\ waited' = [waited EXCEPT ![w] = 0]
        /\ UNCHANGED <<holder, left, age>>
        /\ is' \in [Workers -> BOOLEAN]
    BY <1>7 DEF Stop, Stopped, Crash, store, view, TypeOK
  <2>2. /\ body' \in [Workers -> {"none", "waiting", "running"}]
        /\ timer' \in [Workers -> 0..LeaseDuration]
        /\ faults' \in 0..MaxFaults
    BY <1>7 DEF Stop, Stopped, Crash, Enter, Fault, work, TypeOK
  <2>3. orphans' \subseteq orphans \cup {<<w, "acquire">>, <<w, "release">>}
    BY <1>7 DEF Stop, Stopped, Crash, GiveUp
  <2>o. orphans' \subseteq Workers \X {"acquire", "release"}
    <3>1. {<<w, "acquire">>, <<w, "release">>} \subseteq Workers \X {"acquire", "release"}
      OBVIOUS
    <3>2. orphans \subseteq Workers \X {"acquire", "release"}
      BY DEF TypeOK
    <3> QED BY <2>3, <3>1, <3>2
  <2>4. TypeOK'
    <3>1. /\ holder' \in Workers \cup {Nobody} /\ left' \in 0..LeaseDuration
          /\ pc' \in [Workers -> {"sleep", "call", "release", "stopped", "crashed"}]
          /\ req' \in [Workers -> {"none", "sent", "mine", "other"}]
          /\ waited' \in [Workers -> 0..BackendTimeout]
          /\ age' \in [Workers -> 0..LeaseDuration]
      BY <2>1 DEF TypeOK
    <3> QED BY <2>1, <2>2, <2>o, <3>1, Zenon DEF TypeOK
  <2>5. ViewIsBacked'
    BY <2>1 DEF ViewIsBacked, InService, TypeOK
  <2>6. GrantInFlight' /\ ReleaseIsLast'
    BY <2>1, <2>3 DEF GrantInFlight, ReleaseIsLast, InService, TypeOK
  <2> QED BY <2>4, <2>5, <2>6
<1>8. ASSUME NEW w \in Workers, Lead(w) \/ WorkDone(w) \/ TimerFires(w) PROVE IInv'
  <2>1. UNCHANGED <<holder, left, pc, req, waited, is, age, orphans, faults>>
    BY <1>8 DEF Lead, WorkDone, TimerFires, store, view
  <2>2. /\ body' \in [Workers -> {"none", "waiting", "running"}]
        /\ timer' \in [Workers -> 0..LeaseDuration]
    BY <1>8 DEF Lead, WorkDone, TimerFires, Enter, TypeOK
  <2> QED BY <2>1, <2>2 DEF TypeOK, ViewIsBacked, GrantInFlight, ReleaseIsLast, InService
<1>9. CASE Tick
  <2>1. /\ UNCHANGED <<holder, pc, req, is, body, orphans, faults>>
        /\ left' = Less(left)
        /\ waited' = [w \in Workers |-> IF req[w] = "none" THEN 0 ELSE waited[w] + 1]
        /\ age' = [w \in Workers |-> IF age[w] = LeaseDuration THEN age[w] ELSE age[w] + 1]
        /\ timer' = [w \in Workers |-> Less(timer[w])]
        /\ \A w \in Workers : req[w] # "none" => waited[w] # BackendTimeout
    BY <1>9 DEF Tick, Due
  <2>2. TypeOK'
    BY <2>1 DEF TypeOK, Less
  <2>3. ViewIsBacked'
    BY <2>1 DEF ViewIsBacked, InService, TypeOK, Less
  <2>4. GrantInFlight'
    BY <2>1 DEF GrantInFlight, TypeOK, Less
  <2>5. ReleaseIsLast'
    BY <2>1 DEF ReleaseIsLast, InService
  <2> QED BY <2>2, <2>3, <2>4, <2>5
<1> QED
  BY <1>1, <1>2, <1>3, <1>4, <1>5, <1>6, <1>7, <1>8, <1>9 DEF Next, Service

\* The inductive invariant holds in every reachable state.
THEOREM Invariance == Spec => []IInv
  BY InitIInv, NextIInv, PTL DEF Spec

\* The variables keep their types, whatever the constants are.
THEOREM TypeCorrect == Spec => []TypeOK
<1>1. IInv => TypeOK
  BY DEF IInv
<1> QED BY <1>1, Invariance, PTL

\* is_leader_confirmed_within never lies for a max_age below what the timeout
\* leaves of the lease.
THEOREM ConfirmationIsSound == Spec => []ConfirmedIsHolder
<1>1. IInv => ConfirmedIsHolder
  BY ConfigAssumption
  DEF IInv, TypeOK, ViewIsBacked, ConfirmedIsHolder, is_leader_confirmed_within, Live
<1> QED BY <1>1, Invariance, PTL

\* With timings that leave room for the backend timeout, two workers in
\* service never both take themselves for the leader.
THEOREM LeaderIsUnique ==
  ASSUME SafeTimings
  PROVE  Spec => []AtMostOneLeader
<1>1. IInv => AtMostOneLeader
  BY ConfigAssumption
  DEF SafeTimings, IInv, TypeOK, ViewIsBacked, AtMostOneLeader, is_leader, is_renew_deadline_reached
<1> QED BY <1>1, Invariance, PTL

=============================================================================
