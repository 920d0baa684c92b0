---------------------------- MODULE OutboxProofs ----------------------------
(***************************************************************************)
(* Until a message is redriven, the attempts column is a sound fence: for  *)
(* every number of relays, messages and faults, only the job of the        *)
(* message's latest claim can settle it, and once delivered or dead it     *)
(* stays so.                                                               *)
(*                                                                         *)
(* The argument: attempts then counts claims (AttemptsCountClaims), so a   *)
(* job carries the number of its claim (JobsKnowTheirClaim); two jobs      *)
(* never share a claim (ClaimsAreUnique), and while the job of the latest  *)
(* claim is unsettled the row is in processing (LatestInProcessing).       *)
(*                                                                         *)
(* Redriven or not, a message leaves the table as delivered only when it   *)
(* was handled, its handler runs at most max_attempts times in a drive     *)
(* (RunsFit: the runs so far and the attempts left fit the budget), and a  *)
(* publish is skipped only for a message that is there to stay.            *)
(***************************************************************************)
EXTENDS Outbox, FiniteSetTheorems, TLAPS

AttemptsCountClaims ==
  \A m \in Messages : drive[m] = 0 => attempts[m] = claims[m]

JobsKnowTheirClaim ==
  \A j \in jobs : j.claim <= claims[j.msg] /\ (drive[j.msg] = 0 => j.attempts = j.claim)

ClaimsAreUnique ==
  \A i, j \in jobs : i.msg = j.msg /\ i.claim = j.claim => i = j

LatestInProcessing ==
  \A j \in jobs :
    drive[j.msg] = 0 /\ j.claim = claims[j.msg] => state[j.msg] = "processing"

FenceInv ==
  /\ AttemptsCountClaims
  /\ JobsKnowTheirClaim
  /\ ClaimsAreUnique
  /\ LatestInProcessing

IInv == TypeOK /\ FenceInv

\* There is nothing in the table to begin with.
LEMMA InitIInv == Init => IInv
<1> SUFFICES ASSUME Init PROVE IInv
  OBVIOUS
<1>1. TypeOK
  <2>1. due \in [Messages -> BOOLEAN] /\ jobs \subseteq Jobs /\ done \subseteq Messages
    BY DEF Init
  <2>2. /\ state \in [Messages -> States]
        /\ up \in [Relays -> {"up", "draining", "down"}]
        /\ attempts \in [Messages -> Nat] /\ claims \in [Messages -> Nat]
        /\ runs \in [Messages -> Nat] /\ drive \in [Messages -> 0..MaxRedrives]
        /\ faults \in 0..MaxFaults
        /\ \A j \in jobs : j.relay = Nobody => j.stage \in Settling
    BY OutboxAssumption DEF Init, States
  <2> QED BY <2>1, <2>2, Zenon DEF TypeOK
<1>2. AttemptsCountClaims /\ JobsKnowTheirClaim /\ ClaimsAreUnique /\ LatestInProcessing
  BY DEF Init, AttemptsCountClaims, JobsKnowTheirClaim, ClaimsAreUnique, LatestInProcessing
<1> QED BY <1>1, <1>2 DEF IInv, FenceInv

-----------------------------------------------------------------------------
\* Types.

RowTypes ==
  /\ state \in [Messages -> States]
  /\ attempts \in [Messages -> Nat]
  /\ drive \in [Messages -> 0..MaxRedrives]
DueTypes == due \in [Messages -> BOOLEAN]
JobTypes == jobs \subseteq Jobs /\ \A j \in jobs : j.relay = Nobody => j.stage \in Settling
RelayTypes == up \in [Relays -> {"up", "draining", "down"}] /\ faults \in 0..MaxFaults
HistoryTypes ==
  /\ claims \in [Messages -> Nat] /\ runs \in [Messages -> Nat]
  /\ done \subseteq Messages

\* The type invariant by what its parts are about.
LEMMA TypeParts ==
  TypeOK <=> RowTypes /\ DueTypes /\ JobTypes /\ RelayTypes /\ HistoryTypes
  BY Zenon DEF TypeOK, RowTypes, DueTypes, JobTypes, RelayTypes, HistoryTypes

\* Likewise after a step.
LEMMA TypePartsPrimed ==
  TypeOK' <=> (RowTypes /\ DueTypes /\ JobTypes /\ RelayTypes /\ HistoryTypes)'
  BY TypeParts, PTL

\* A job that moves on is the same job at another stage.
LEMMA MoveToEffect ==
  ASSUME JobTypes, NEW j \in jobs, NEW stage \in {"running"} \cup Settling, j.relay = Nobody => stage \in Settling, MoveTo(j, stage)
  PROVE  /\ JobTypes'
         /\ [j EXCEPT !.stage = stage].msg = j.msg
         /\ [j EXCEPT !.stage = stage].attempts = j.attempts
         /\ [j EXCEPT !.stage = stage].claim = j.claim
<1>1. [j EXCEPT !.stage = stage] \in Jobs
  BY DEF JobTypes, Jobs
<1>2. /\ [j EXCEPT !.stage = stage].msg = j.msg
      /\ [j EXCEPT !.stage = stage].attempts = j.attempts
      /\ [j EXCEPT !.stage = stage].claim = j.claim
      /\ [j EXCEPT !.stage = stage].relay = j.relay
      /\ [j EXCEPT !.stage = stage].stage = stage
  BY DEF JobTypes, Jobs
<1> QED BY <1>1, <1>2 DEF JobTypes, MoveTo

\* Orphaned jobs are the same jobs without a relay.
LEMMA OrphansEffect ==
  ASSUME JobTypes, NEW cut \in SUBSET jobs
  PROVE  \A k \in Orphans(cut) :
           /\ k \in Jobs /\ k.stage \in Settling
           /\ \E j \in cut : /\ k = [j EXCEPT !.relay = Nobody]
                             /\ k.msg = j.msg /\ k.attempts = j.attempts /\ k.claim = j.claim
<1> SUFFICES ASSUME NEW k \in Orphans(cut)
    PROVE  /\ k \in Jobs /\ k.stage \in Settling
           /\ \E j \in cut : /\ k = [j EXCEPT !.relay = Nobody]
                             /\ k.msg = j.msg /\ k.attempts = j.attempts /\ k.claim = j.claim
  OBVIOUS
<1>1. PICK j \in cut : j.stage \in Settling /\ k = [j EXCEPT !.relay = Nobody]
  BY DEF Orphans
<1>2. j \in Jobs
  BY DEF JobTypes
<1> QED BY <1>1, <1>2 DEF Jobs

\* Every step keeps the types.
LEMMA TypeStep == TypeOK /\ [Next]_vars => TypeOK'
<1> SUFFICES ASSUME TypeOK, [Next]_vars PROVE TypeOK'
  OBVIOUS
<1> USE OutboxAssumption
<1>0. RowTypes /\ DueTypes /\ JobTypes /\ RelayTypes /\ HistoryTypes
  BY TypeParts
<1>1. CASE UNCHANGED vars
  BY <1>1, Zenon DEF vars, row, history, TypeOK
<1>2. ASSUME NEW m \in Messages,
             publish(m) \/ Commit(m) \/ Rollback(m) \/ BecomesDue(m) \/ Overrun(m)
      PROVE  TypeOK'
  <2>1. UNCHANGED <<attempts, drive, jobs, up, claims, runs, done>>
    BY <1>2 DEF publish, Commit, Rollback, BecomesDue, Overrun, history
  <2>2. state' \in [Messages -> States]
    BY <1>0, <1>2 DEF publish, Commit, Rollback, BecomesDue, Overrun, RowTypes, States, Committed
  <2>3. DueTypes'
    BY <1>0, <1>2 DEF publish, Commit, Rollback, BecomesDue, Overrun, DueTypes
  <2>4. faults' \in 0..MaxFaults
    BY <1>0, <1>2 DEF publish, Commit, Rollback, BecomesDue, Overrun, Fault, RelayTypes
  <2> QED BY <1>0, <2>1, <2>2, <2>3, <2>4, TypePartsPrimed, Zenon
      DEF RowTypes, JobTypes, RelayTypes, HistoryTypes
<1>3. ASSUME NEW r \in Relays, claim(r) PROVE TypeOK'
  <2>1. PICK batch \in SUBSET Claimable :
          /\ state' = [m \in Messages |-> IF m \in batch THEN "processing" ELSE state[m]]
          /\ attempts' = [m \in Messages |-> IF m \in batch THEN attempts[m] + 1 ELSE attempts[m]]
          /\ due' = [m \in Messages |-> IF m \in batch THEN FALSE ELSE due[m]]
          /\ claims' = [m \in Messages |-> IF m \in batch THEN claims[m] + 1 ELSE claims[m]]
          /\ jobs' = jobs \cup
               {[relay |-> r, msg |-> m, attempts |-> attempts'[m], stage |-> "claimed",
                 claim |-> claims'[m], drive |-> drive[m]] : m \in batch}
    BY <1>3 DEF claim
  <2>2. UNCHANGED <<up, drive, faults, runs, done>> /\ batch \subseteq Messages
    BY <1>3 DEF claim, Claimable
  <2>3. RowTypes' /\ HistoryTypes' /\ RelayTypes'
    BY <1>0, <2>1, <2>2 DEF RowTypes, HistoryTypes, RelayTypes, States, Committed
  <2>4. DueTypes'
    BY <1>0, <2>1 DEF DueTypes
  <2>5. JobTypes'
    <3> DEFINE New(m) == [relay |-> r, msg |-> m, attempts |-> attempts'[m], stage |-> "claimed",
                          claim |-> claims'[m], drive |-> drive[m]]
    <3>1. jobs' = jobs \cup {New(m) : m \in batch}
      BY <2>1
    <3>2. ASSUME NEW m \in batch PROVE New(m) \in Jobs /\ New(m).relay # Nobody
      <4>1. m \in Messages /\ r # Nobody
        BY <2>2
      <4>2. attempts'[m] \in Nat /\ claims'[m] \in Nat /\ drive[m] \in 0..MaxRedrives
        BY <1>0, <2>3, <4>1 DEF RowTypes, HistoryTypes
      <4> QED BY <4>1, <4>2 DEF Jobs
    <3> HIDE DEF New
    <3> QED BY <1>0, <3>1, <3>2 DEF JobTypes
  <2> QED BY <2>3, <2>4, <2>5, TypePartsPrimed
<1>4. ASSUME NEW j \in jobs, deliver(j) \/ HandlerEnds(j) PROVE TypeOK'
  <2>1. /\ UNCHANGED <<state, attempts, due, drive, up, faults, claims>>
        /\ j.relay # Nobody
        /\ done' \subseteq done \cup {j.msg}
    BY <1>0, <1>4 DEF deliver, HandlerEnds, row, JobTypes, Settling
  <2>2. \E stage \in {"running"} \cup Settling : MoveTo(j, stage)
    BY <1>4 DEF deliver, HandlerEnds, RetryOrDead, Settling
  <2>3. JobTypes'
    BY <1>0, <2>1, <2>2, MoveToEffect
  <2>4. HistoryTypes'
    <3>1. j.msg \in Messages
      BY <1>0 DEF JobTypes, Jobs
    <3>2. runs' \in [Messages -> Nat]
      BY <1>0, <1>4, <3>1 DEF deliver, HandlerEnds, HistoryTypes
    <3> QED BY <1>0, <2>1, <3>1, <3>2 DEF HistoryTypes
  <2> QED BY <1>0, <2>1, <2>3, <2>4, TypePartsPrimed, Zenon DEF RowTypes, DueTypes, RelayTypes
<1>5. ASSUME NEW j \in jobs, settle(j) \/ LoseSettle(j) PROVE TypeOK'
  <2>1. /\ UNCHANGED <<attempts, drive, up, claims, runs, done>>
        /\ jobs' = jobs \ {j} /\ j.msg \in Messages /\ j.stage \in Settling
        /\ faults' \in 0..MaxFaults
    BY <1>0, <1>5 DEF settle, LoseSettle, Fault, row, history, JobTypes, Jobs, RelayTypes
  <2>2. state' \in [Messages -> States]
    <3>1. SettledState(j) \in States
      BY <2>1 DEF SettledState, Settling, States, Committed, Terminal
    <3> QED BY <1>0, <1>5, <2>1, <3>1 DEF settle, LoseSettle, row, RowTypes
  <2>3. DueTypes'
    BY <1>0, <1>5, <2>1 DEF settle, LoseSettle, row, DueTypes
  <2>4. JobTypes'
    BY <1>0, <2>1 DEF JobTypes
  <2> QED BY <1>0, <2>1, <2>2, <2>3, <2>4, TypePartsPrimed, Zenon DEF RowTypes, RelayTypes, HistoryTypes
<1>6. ASSUME NEW r \in Relays, StopRelay(r) \/ DrainEnds(r) \/ Crash(r) \/ Restart(r) PROVE TypeOK'
  <2>1. UNCHANGED <<state, attempts, due, drive, claims, runs, done>>
    BY <1>6 DEF StopRelay, DrainEnds, Crash, Restart, row, history
  <2>2. RelayTypes'
    BY <1>0, <1>6 DEF StopRelay, DrainEnds, Crash, Restart, Fault, RelayTypes
  <2>3. JobTypes'
    <3>1. CASE UNCHANGED jobs
      BY <1>0, <3>1 DEF JobTypes
    <3>2. CASE CutOff(JobsOf(r))
      <4>1. JobsOf(r) \subseteq jobs
        BY DEF JobsOf
      <4> QED BY <1>0, <3>2, <4>1, OrphansEffect DEF CutOff, JobTypes
    <3> QED BY <1>6, <3>1, <3>2 DEF StopRelay, DrainEnds, Crash, Restart
  <2> QED BY <1>0, <2>1, <2>2, <2>3, TypePartsPrimed, Zenon DEF RowTypes, DueTypes, HistoryTypes
<1>7. CASE redrive \/ purge
  <2>1. UNCHANGED <<jobs, up, faults, claims, done>>
    BY <1>7 DEF redrive, purge, history
  <2>2. RowTypes' /\ runs' \in [Messages -> Nat]
    <3>1. state' \in [Messages -> States]
      <4>1. "pending" \in States /\ "purged" \in States
        BY DEF States, Committed, Terminal
      <4>2. CASE redrive
        <5>1. state' = [m \in Messages |-> IF m \in Dead THEN "pending" ELSE state[m]]
          BY <4>2 DEF redrive
        <5> QED BY <1>0, <4>1, <5>1 DEF RowTypes
      <4>3. CASE purge
        <5>1. PICK old : state' = [m \in Messages |-> IF m \in old THEN "purged" ELSE state[m]]
          BY <4>3 DEF purge
        <5> QED BY <1>0, <4>1, <5>1 DEF RowTypes
      <4> QED BY <1>7, <4>2, <4>3
    <3>2. attempts' \in [Messages -> Nat] /\ runs' \in [Messages -> Nat]
      <4>1. CASE redrive
        <5>1. /\ attempts' = [m \in Messages |-> IF m \in Dead THEN 0 ELSE attempts[m]]
              /\ runs' = [m \in Messages |-> IF m \in Dead THEN 0 ELSE runs[m]]
          BY <4>1 DEF redrive
        <5> QED BY <1>0, <5>1 DEF RowTypes, HistoryTypes
      <4>2. CASE purge
        BY <1>0, <4>2 DEF purge, history, RowTypes, HistoryTypes
      <4> QED BY <1>7, <4>1, <4>2
    <3>3. drive' \in [Messages -> 0..MaxRedrives]
      <4>1. CASE redrive
        <5>1. \A m \in Messages : drive[m] \in 0..MaxRedrives
          BY <1>0 DEF RowTypes
        <5>2. \A m \in Dead : drive[m] < MaxRedrives
          BY <4>1 DEF redrive
        <5>3. drive' = [m \in Messages |-> IF m \in Dead THEN drive[m] + 1 ELSE drive[m]]
          BY <4>1 DEF redrive
        <5> QED BY <5>1, <5>2, <5>3
      <4>2. CASE purge
        BY <1>0, <4>2 DEF purge, RowTypes
      <4> QED BY <1>7, <4>1, <4>2
    <3> QED BY <3>1, <3>2, <3>3 DEF RowTypes
  <2>3. DueTypes'
    BY <1>0, <1>7 DEF redrive, purge, DueTypes
  <2> QED BY <1>0, <2>1, <2>2, <2>3, TypePartsPrimed, Zenon DEF JobTypes, RelayTypes, HistoryTypes
<1> QED BY <1>1, <1>2, <1>3, <1>4, <1>5, <1>6, <1>7 DEF Next

\* The variables keep their types, redrives or not.
THEOREM TypeCorrect == Spec => []TypeOK
<1>1. Init => TypeOK
  BY InitIInv DEF IInv
<1> QED BY <1>1, TypeStep, PTL DEF Spec

-----------------------------------------------------------------------------
\* The fence.

\* A step that mints no claim keeps the fence when the jobs it leaves are the
\* old ones, and no two of them the same.
LEMMA NoClaimStep ==
  ASSUME FenceInv, JobTypes, UNCHANGED <<attempts, claims, drive>>,
         \A k \in jobs' : \E j \in jobs :
           k.msg = j.msg /\ k.attempts = j.attempts /\ k.claim = j.claim,
         ClaimsAreUnique', LatestInProcessing'
  PROVE  FenceInv'
<1>1. AttemptsCountClaims'
  BY DEF FenceInv, AttemptsCountClaims
<1>2. JobsKnowTheirClaim'
  BY DEF FenceInv, JobsKnowTheirClaim
<1> QED BY <1>1, <1>2 DEF FenceInv

\* Likewise when it only relabels jobs and leaves the rows alone.
LEMMA RelabelStep ==
  ASSUME FenceInv, JobTypes, UNCHANGED <<state, attempts, claims, drive>>,
         \A k \in jobs' : \E j \in jobs :
           k.msg = j.msg /\ k.attempts = j.attempts /\ k.claim = j.claim,
         ClaimsAreUnique'
  PROVE  FenceInv'
<1>1. LatestInProcessing'
  BY DEF FenceInv, LatestInProcessing
<1> QED BY <1>1, NoClaimStep

\* Every step keeps the fence; a redrive takes its messages out of it.
LEMMA FenceStep ==
  ASSUME IInv, [Next]_vars
  PROVE  FenceInv'
<1>0. /\ RowTypes /\ JobTypes /\ HistoryTypes
      /\ FenceInv /\ AttemptsCountClaims /\ JobsKnowTheirClaim /\ ClaimsAreUnique /\ LatestInProcessing
  BY TypeParts DEF IInv, FenceInv
<1>a. \A j \in jobs : j \in Jobs /\ j.msg \in Messages
  BY <1>0 DEF JobTypes, Jobs
<1>1. CASE UNCHANGED vars
  <2>1. UNCHANGED <<state, attempts, claims, drive, jobs>>
    BY <1>1 DEF vars, row, history
  <2> QED BY <1>0, <2>1, RelabelStep DEF ClaimsAreUnique
<1>2. ASSUME NEW m \in Messages,
             publish(m) \/ Commit(m) \/ Rollback(m) \/ BecomesDue(m) \/ Overrun(m)
      PROVE  FenceInv'
  <2>1. UNCHANGED <<attempts, claims, drive, jobs>>
    BY <1>2 DEF publish, Commit, Rollback, BecomesDue, Overrun, history
  <2>2. ASSUME NEW n \in Messages, state[n] = "processing" PROVE state'[n] = "processing"
    BY <1>0, <1>2, <2>2 DEF publish, Commit, Rollback, BecomesDue, Overrun, RowTypes
  <2>3. ClaimsAreUnique' /\ LatestInProcessing'
    BY <1>0, <1>a, <2>1, <2>2 DEF ClaimsAreUnique, LatestInProcessing
  <2> QED BY <1>0, <2>1, <2>3, NoClaimStep
<1>3. ASSUME NEW r \in Relays, claim(r) PROVE FenceInv'
  <2> DEFINE New(m) == [relay |-> r, msg |-> m, attempts |-> attempts'[m], stage |-> "claimed",
                        claim |-> claims'[m], drive |-> drive[m]]
  <2>1. PICK batch \in SUBSET Claimable :
          /\ state' = [m \in Messages |-> IF m \in batch THEN "processing" ELSE state[m]]
          /\ attempts' = [m \in Messages |-> IF m \in batch THEN attempts[m] + 1 ELSE attempts[m]]
          /\ claims' = [m \in Messages |-> IF m \in batch THEN claims[m] + 1 ELSE claims[m]]
          /\ jobs' = jobs \cup {New(m) : m \in batch}
          /\ drive' = drive
    BY <1>3 DEF claim
  <2>2. batch \subseteq Messages
    BY DEF Claimable
  <2>3. AttemptsCountClaims'
    BY <1>0, <2>1 DEF AttemptsCountClaims
  <2>4. \A m \in batch : /\ New(m).msg = m /\ New(m).claim = claims[m] + 1
                         /\ drive[m] = 0 => New(m).attempts = claims[m] + 1
                         /\ claims'[m] = claims[m] + 1 /\ state'[m] = "processing"
    BY <1>0, <2>1, <2>2 DEF AttemptsCountClaims
  <2>5. \A j \in jobs : /\ drive[j.msg] = 0 => j.attempts = j.claim
                        /\ j.claim \in Nat /\ j.claim <= claims[j.msg]
                        /\ claims[j.msg] \in Nat
                        /\ j.msg \in batch => claims'[j.msg] = claims[j.msg] + 1
                        /\ j.msg \notin batch => /\ claims'[j.msg] = claims[j.msg]
                                                 /\ state'[j.msg] = state[j.msg]
    BY <1>0, <1>a, <2>1 DEF JobsKnowTheirClaim, HistoryTypes, Jobs
  <2>6. \A m \in batch : claims[m] \in Nat
    BY <1>0, <2>2 DEF HistoryTypes
  <2> HIDE DEF New
  <2>7. JobsKnowTheirClaim'
    <3>1. ASSUME NEW j \in jobs
          PROVE  j.claim <= claims'[j.msg] /\ (drive[j.msg] = 0 => j.attempts = j.claim)
      BY <2>5
    <3>2. ASSUME NEW m \in batch
          PROVE  /\ New(m).claim <= claims'[New(m).msg]
                 /\ drive[New(m).msg] = 0 => New(m).attempts = New(m).claim
      BY <2>4, <2>6
    <3> QED BY <2>1, <3>1, <3>2 DEF JobsKnowTheirClaim
  <2>8. LatestInProcessing'
    BY <1>0, <2>1, <2>4, <2>5, <2>6 DEF LatestInProcessing
  <2>9. ClaimsAreUnique'
    <3> SUFFICES ASSUME NEW i \in jobs', NEW j \in jobs', i.msg = j.msg, i.claim = j.claim
                 PROVE  i = j
      BY DEF ClaimsAreUnique
    <3>1. CASE i \in jobs /\ j \in jobs
      BY <1>0, <3>1 DEF ClaimsAreUnique
    <3>2. ASSUME NEW m \in batch, NEW o \in jobs PROVE ~(New(m).msg = o.msg /\ New(m).claim = o.claim)
      BY <2>4, <2>5, <2>6
    <3>3. ASSUME NEW m \in batch, NEW n \in batch, New(m).msg = New(n).msg PROVE New(m) = New(n)
      BY <2>4, <3>3
    <3> QED BY <2>1, <3>1, <3>2, <3>3
  <2> QED BY <2>3, <2>7, <2>8, <2>9 DEF FenceInv
<1>4. ASSUME NEW j \in jobs, deliver(j) \/ HandlerEnds(j) PROVE FenceInv'
  <2>1. UNCHANGED <<state, attempts, claims, drive>> /\ j.relay # Nobody
    BY <1>0, <1>4 DEF deliver, HandlerEnds, row, JobTypes, Settling
  <2>2. PICK stage \in {"running"} \cup Settling : MoveTo(j, stage)
    BY <1>4 DEF deliver, HandlerEnds, RetryOrDead, Settling
  <2> DEFINE k == [j EXCEPT !.stage = stage]
  <2>3. k.msg = j.msg /\ k.attempts = j.attempts /\ k.claim = j.claim
    BY <1>0, <2>1, <2>2, MoveToEffect
  <2>4. jobs' = (jobs \ {j}) \cup {k}
    BY <2>2 DEF MoveTo
  <2> HIDE DEF k
  <2>5. ClaimsAreUnique'
    <3>1. ASSUME NEW o \in jobs \ {j} PROVE ~(o.msg = k.msg /\ o.claim = k.claim)
      BY <1>0, <2>3 DEF ClaimsAreUnique
    <3>2. ASSUME NEW i \in jobs', NEW o \in jobs', i.msg = o.msg, i.claim = o.claim PROVE i = o
      BY <1>0, <2>4, <3>1, <3>2 DEF ClaimsAreUnique
    <3> QED BY <3>2 DEF ClaimsAreUnique
  <2>6. \A i \in jobs' : \E o \in jobs :
          i.msg = o.msg /\ i.attempts = o.attempts /\ i.claim = o.claim
    BY <2>3, <2>4
  <2> QED BY <1>0, <2>1, <2>5, <2>6, RelabelStep
<1>5. ASSUME NEW j \in jobs, settle(j) \/ LoseSettle(j) PROVE FenceInv'
  <2>1. UNCHANGED <<attempts, claims, drive>> /\ jobs' = jobs \ {j}
    BY <1>5 DEF settle, LoseSettle, row, history
  <2>2. ClaimsAreUnique'
    BY <1>0, <2>1 DEF ClaimsAreUnique
  <2>3. LatestInProcessing'
    <3> SUFFICES ASSUME NEW k \in jobs', drive[k.msg] = 0, k.claim = claims[k.msg]
                 PROVE  state'[k.msg] = "processing"
      BY <2>1 DEF LatestInProcessing
    <3>1. k \in jobs /\ k # j /\ state[k.msg] = "processing"
      BY <1>0, <2>1 DEF LatestInProcessing
    <3>2. CASE k.msg = j.msg
      <4>1. j.claim # claims[j.msg]
        BY <1>0, <3>1, <3>2 DEF ClaimsAreUnique
      <4>2. j.attempts # attempts[j.msg]
        BY <1>0, <1>a, <3>2, <4>1 DEF AttemptsCountClaims, JobsKnowTheirClaim
      <4>3. UNCHANGED state
        BY <1>5, <4>2 DEF settle, LoseSettle, row, Matches
      <4> QED BY <3>1, <4>3
    <3>3. CASE k.msg # j.msg
      <4>1. state'[k.msg] = state[k.msg]
        BY <1>0, <1>a, <1>5, <3>1, <3>3 DEF settle, LoseSettle, row, RowTypes
      <4> QED BY <3>1, <4>1
    <3> QED BY <3>2, <3>3
  <2> QED BY <1>0, <2>1, <2>2, <2>3, NoClaimStep
<1>6. ASSUME NEW r \in Relays, StopRelay(r) \/ DrainEnds(r) \/ Crash(r) \/ Restart(r) PROVE FenceInv'
  <2>1. UNCHANGED <<state, attempts, claims, drive>>
    BY <1>6 DEF StopRelay, DrainEnds, Crash, Restart, row, history
  <2>2. CASE UNCHANGED jobs
    BY <1>0, <2>1, <2>2, RelabelStep DEF ClaimsAreUnique
  <2>3. CASE CutOff(JobsOf(r))
    <3> DEFINE cut == JobsOf(r)
    <3>1. cut \subseteq jobs
      BY DEF JobsOf
    <3>2. PICK late \in SUBSET Orphans(cut) : jobs' = (jobs \ cut) \cup late
      BY <2>3 DEF CutOff
    <3> HIDE DEF cut
    <3>3. \A k \in late : \E j \in cut : /\ k = [j EXCEPT !.relay = Nobody]
                                         /\ k.msg = j.msg /\ k.attempts = j.attempts /\ k.claim = j.claim
      BY <1>0, <3>1, OrphansEffect
    <3>4. ClaimsAreUnique'
      <4> SUFFICES ASSUME NEW i \in jobs', NEW j \in jobs', i.msg = j.msg, i.claim = j.claim
                   PROVE  i = j
        BY DEF ClaimsAreUnique
      <4>1. CASE i \in late /\ j \in late
        <5>1. PICK a \in cut : i = [a EXCEPT !.relay = Nobody] /\ i.msg = a.msg /\ i.claim = a.claim
          BY <3>3, <4>1
        <5>2. PICK b \in cut : j = [b EXCEPT !.relay = Nobody] /\ j.msg = b.msg /\ j.claim = b.claim
          BY <3>3, <4>1
        <5>3. a = b
          BY <1>0, <3>1, <5>1, <5>2 DEF ClaimsAreUnique
        <5> QED BY <5>1, <5>2, <5>3
      <4>2. ASSUME NEW k \in late, NEW o \in jobs \ cut PROVE ~(k.msg = o.msg /\ k.claim = o.claim)
        BY <1>0, <3>1, <3>3 DEF ClaimsAreUnique
      <4>3. CASE i \in jobs \ cut /\ j \in jobs \ cut
        BY <1>0, <4>3 DEF ClaimsAreUnique
      <4> QED BY <3>2, <4>1, <4>2, <4>3
    <3>5. \A k \in jobs' : \E j \in jobs :
            k.msg = j.msg /\ k.attempts = j.attempts /\ k.claim = j.claim
      BY <3>1, <3>2, <3>3
    <3> QED BY <1>0, <2>1, <3>4, <3>5, RelabelStep
  <2> QED BY <1>6, <2>2, <2>3 DEF StopRelay, DrainEnds, Crash, Restart
<1>7. CASE redrive
  <2>1. /\ drive' = [m \in Messages |-> IF m \in Dead THEN drive[m] + 1 ELSE drive[m]]
        /\ attempts' = [m \in Messages |-> IF m \in Dead THEN 0 ELSE attempts[m]]
        /\ state' = [m \in Messages |-> IF m \in Dead THEN "pending" ELSE state[m]]
        /\ UNCHANGED <<claims, jobs>>
    BY <1>7 DEF redrive
  <2>2. \A m \in Messages : drive[m] \in Nat
    BY <1>0 DEF RowTypes
  <2>3. \A m \in Messages : drive'[m] = 0 =>
          drive[m] = 0 /\ attempts'[m] = attempts[m] /\ state'[m] = state[m]
    BY <2>1, <2>2
  <2>4. AttemptsCountClaims'
    BY <1>0, <2>1, <2>3 DEF AttemptsCountClaims
  <2>5. JobsKnowTheirClaim' /\ LatestInProcessing'
    BY <1>0, <1>a, <2>1, <2>3 DEF JobsKnowTheirClaim, LatestInProcessing
  <2>6. ClaimsAreUnique'
    BY <1>0, <2>1 DEF ClaimsAreUnique
  <2> QED BY <2>4, <2>5, <2>6 DEF FenceInv
<1>8. CASE purge
  <2>1. UNCHANGED <<attempts, claims, drive, jobs>>
    BY <1>8 DEF purge, history
  <2>2. \A n \in Messages : state[n] = "processing" => state'[n] = "processing"
    BY <1>0, <1>8 DEF purge
  <2>3. ClaimsAreUnique' /\ LatestInProcessing'
    BY <1>0, <1>a, <2>1, <2>2 DEF ClaimsAreUnique, LatestInProcessing
  <2> QED BY <1>0, <2>1, <2>3, NoClaimStep
<1> QED BY <1>1, <1>2, <1>3, <1>4, <1>5, <1>6, <1>7, <1>8 DEF Next

\* The fence holds in every state, for the messages nobody has redriven.
THEOREM Invariance == Spec => []IInv
<1>1. IInv /\ [Next]_vars => IInv'
  BY TypeStep, FenceStep DEF IInv
<1> QED BY <1>1, InitIInv, PTL DEF Spec

\* Of the jobs for a message only the one of the latest claim can settle it
\* (the attempts guard of complete and reschedule), until it is redriven.
THEOREM LateSettlesAreFenced == Spec => []OnlyLatestSettles
<1>1. IInv => OnlyLatestSettles
  <2> SUFFICES ASSUME IInv, NEW j \in jobs, drive[j.msg] = 0, Matches(j)
               PROVE  j.claim = claims[j.msg]
    BY DEF OnlyLatestSettles
  <2>1. j.msg \in Messages
    BY DEF IInv, TypeOK, Jobs
  <2> QED BY <2>1 DEF IInv, FenceInv, AttemptsCountClaims, JobsKnowTheirClaim, Matches
<1> QED BY <1>1, Invariance, PTL

\* No step but a redrive or a purge takes a delivered or dead message out of
\* its final state.
LEMMA FinalStep ==
  ASSUME IInv, [Next]_vars, NEW m \in Messages, state[m] \in Terminal, drive'[m] = 0
  PROVE  state'[m] \in {state[m], "purged"}
<1>0. /\ RowTypes /\ JobTypes /\ AttemptsCountClaims /\ JobsKnowTheirClaim /\ LatestInProcessing
  BY TypeParts DEF IInv, FenceInv
<1>1. CASE UNCHANGED state
  BY <1>1
<1>2. ASSUME NEW n \in Messages, publish(n) \/ Commit(n) \/ Rollback(n)
      PROVE  state'[m] = state[m]
  BY <1>0, <1>2 DEF publish, Commit, Rollback, RowTypes, Terminal
<1>3. ASSUME NEW r \in Relays, claim(r) PROVE state'[m] = state[m]
  <2>1. m \notin Claimable
    BY DEF Claimable, Terminal
  <2> QED BY <1>3, <2>1 DEF claim
<1>4. ASSUME NEW j \in jobs, settle(j) PROVE state'[m] = state[m]
  <2>1. j.msg \in Messages
    BY <1>0 DEF JobTypes, Jobs
  <2>2. CASE Matches(j)
    <3>1. CASE j.msg = m
      <4>1. drive[m] = 0
        BY <1>4 DEF settle
      <4>2. state[m] = "processing"
        BY <1>0, <2>2, <3>1, <4>1
        DEF Matches, AttemptsCountClaims, JobsKnowTheirClaim, LatestInProcessing
      <4> QED BY <4>2 DEF Terminal
    <3>2. CASE j.msg # m
      BY <1>0, <1>4, <2>1, <3>2 DEF settle, RowTypes
    <3> QED BY <3>1, <3>2
  <2>3. CASE ~Matches(j)
    BY <1>4, <2>3 DEF settle
  <2> QED BY <2>2, <2>3
<1>5. CASE redrive
  <2>1. drive'[m] = IF m \in Dead THEN drive[m] + 1 ELSE drive[m]
    BY <1>5 DEF redrive
  <2>2. drive[m] \in Nat
    BY <1>0 DEF RowTypes
  <2>3. m \notin Dead
    BY <2>1, <2>2
  <2> QED BY <1>5, <2>3 DEF redrive
<1>6. CASE purge
  BY <1>6 DEF purge
<1>7. ASSUME NEW n \in Messages, BecomesDue(n) \/ Overrun(n) PROVE UNCHANGED state
  BY <1>7 DEF BecomesDue, Overrun
<1>8. ASSUME NEW r \in Relays, StopRelay(r) \/ DrainEnds(r) \/ Crash(r) \/ Restart(r)
      PROVE  UNCHANGED state
  BY <1>8 DEF StopRelay, DrainEnds, Crash, Restart, row
<1>9. ASSUME NEW j \in jobs, deliver(j) \/ HandlerEnds(j) \/ LoseSettle(j) PROVE UNCHANGED state
  BY <1>9 DEF deliver, HandlerEnds, LoseSettle, row
<1>10. UNCHANGED vars => UNCHANGED state
  BY DEF vars, row
<1> QED BY <1>1, <1>2, <1>3, <1>4, <1>5, <1>6, <1>7, <1>8, <1>9, <1>10 DEF Next

\* What is delivered or dead stays so, whatever late statements arrive.
THEOREM TerminalStatesAreFinal == Spec => TerminalIsFinal
<1>1. IInv /\ [Next]_vars =>
        [\A m \in Messages :
           state[m] \in Terminal /\ drive'[m] = 0 => state'[m] \in {state[m], "purged"}]_vars
  BY FinalStep
<1> QED BY <1>1, Invariance, PTL DEF Spec, TerminalIsFinal

-----------------------------------------------------------------------------
\* No message is dropped.

\* A statement that completes a message follows a handler that succeeded.
CompletesAreEarned == \A j \in jobs : j.stage = "complete" => j.msg \in done

\* Every step keeps what is delivered, and what is about to be, handled.
LEMMA HandledStep ==
  ASSUME TypeOK, CompletesAreEarned, DeliveredMeansHandled, [Next]_vars
  PROVE  CompletesAreEarned' /\ DeliveredMeansHandled'
<1>0. RowTypes /\ JobTypes
  BY TypeParts
<1>a. \A j \in jobs : j \in Jobs /\ j.msg \in Messages
  BY <1>0 DEF JobTypes, Jobs
<1>1. CASE UNCHANGED <<state, jobs, done>>
  BY <1>1 DEF CompletesAreEarned, DeliveredMeansHandled
<1>2. ASSUME NEW m \in Messages, publish(m) \/ Commit(m) \/ Rollback(m)
      PROVE  CompletesAreEarned' /\ DeliveredMeansHandled'
  <2>1. UNCHANGED <<jobs, done>>
    BY <1>2 DEF publish, Commit, Rollback, history
  <2>2. \A n \in Messages : state'[n] \in {"delivered", "deleted"} => state[n] \in {"delivered", "deleted"}
    BY <1>0, <1>2 DEF publish, Commit, Rollback, RowTypes
  <2> QED BY <2>1, <2>2 DEF CompletesAreEarned, DeliveredMeansHandled
<1>3. ASSUME NEW r \in Relays, claim(r) PROVE CompletesAreEarned' /\ DeliveredMeansHandled'
  <2>1. UNCHANGED done /\ \A j \in jobs' : j \in jobs \/ j.stage = "claimed"
    BY <1>3 DEF claim
  <2>2. \A n \in Messages : state'[n] \in {"delivered", "deleted"} => state[n] \in {"delivered", "deleted"}
    BY <1>3 DEF claim
  <2> QED BY <2>1, <2>2 DEF CompletesAreEarned, DeliveredMeansHandled
<1>4. ASSUME NEW j \in jobs, deliver(j) \/ HandlerEnds(j)
      PROVE  CompletesAreEarned' /\ DeliveredMeansHandled'
  <2>1. UNCHANGED state /\ done \subseteq done'
    BY <1>4 DEF deliver, HandlerEnds, row
  <2>2. PICK stage \in {"running"} \cup Settling :
          MoveTo(j, stage) /\ (stage = "complete" => j.msg \in done')
    BY <1>4 DEF deliver, HandlerEnds, RetryOrDead, Settling
  <2>3. [j EXCEPT !.stage = stage].stage = stage /\ [j EXCEPT !.stage = stage].msg = j.msg
    BY <1>a DEF Jobs
  <2>4. CompletesAreEarned'
    BY <2>1, <2>2, <2>3 DEF MoveTo, CompletesAreEarned
  <2> QED BY <2>1, <2>4 DEF DeliveredMeansHandled
<1>5. ASSUME NEW j \in jobs, settle(j) \/ LoseSettle(j)
      PROVE  CompletesAreEarned' /\ DeliveredMeansHandled'
  <2>1. UNCHANGED done /\ jobs' = jobs \ {j} /\ j.stage \in Settling
    BY <1>5 DEF settle, LoseSettle, history
  <2>2. CompletesAreEarned'
    BY <2>1 DEF CompletesAreEarned
  <2>3. \A n \in Messages : state'[n] = state[n] \/ (n = j.msg /\ state'[n] = SettledState(j))
    BY <1>0, <1>a, <1>5 DEF settle, LoseSettle, row, RowTypes
  <2>4. SettledState(j) \in {"delivered", "deleted"} => j.msg \in done
    BY <2>1 DEF SettledState, Settling, CompletesAreEarned
  <2>5. DeliveredMeansHandled'
    BY <2>1, <2>3, <2>4 DEF DeliveredMeansHandled
  <2> QED BY <2>2, <2>5
<1>6. ASSUME NEW r \in Relays, StopRelay(r) \/ DrainEnds(r) \/ Crash(r) \/ Restart(r)
      PROVE  CompletesAreEarned' /\ DeliveredMeansHandled'
  <2>1. UNCHANGED <<state, done>>
    BY <1>6 DEF StopRelay, DrainEnds, Crash, Restart, row, history
  <2>2. CASE CutOff(JobsOf(r))
    <3>1. PICK late \in SUBSET Orphans(JobsOf(r)) : jobs' = (jobs \ JobsOf(r)) \cup late
      BY <2>2 DEF CutOff
    <3>2. ASSUME NEW k \in late PROVE k.stage = "complete" => k.msg \in done
      <4>1. PICK j \in jobs : k = [j EXCEPT !.relay = Nobody]
        BY DEF Orphans, JobsOf
      <4>2. k.stage = j.stage /\ k.msg = j.msg
        BY <1>a, <4>1 DEF Jobs
      <4> QED BY <4>2 DEF CompletesAreEarned
    <3> QED BY <2>1, <3>1, <3>2 DEF CompletesAreEarned, DeliveredMeansHandled
  <2> QED BY <1>1, <1>6, <2>1, <2>2 DEF StopRelay, DrainEnds, Crash, Restart
<1>7. CASE redrive \/ purge
  <2>1. UNCHANGED <<jobs, done>>
    BY <1>7 DEF redrive, purge, history
  <2>2. \A n \in Messages : state'[n] \in {"delivered", "deleted"} => state[n] \in {"delivered", "deleted"}
    BY <1>7 DEF redrive, purge
  <2> QED BY <2>1, <2>2 DEF CompletesAreEarned, DeliveredMeansHandled
<1>8. ASSUME NEW m \in Messages, BecomesDue(m) \/ Overrun(m) PROVE UNCHANGED <<state, jobs, done>>
  BY <1>8 DEF BecomesDue, Overrun, history
<1>9. UNCHANGED vars => UNCHANGED <<state, jobs, done>>
  BY DEF vars, row, history
<1> QED BY <1>1, <1>2, <1>3, <1>4, <1>5, <1>6, <1>7, <1>8, <1>9 DEF Next

\* Redrives, crashes and overruns included, a message leaves the table as
\* delivered only after a handler succeeded for it (complete).
THEOREM NothingIsDropped == Spec => []DeliveredMeansHandled
<1>1. Init => CompletesAreEarned /\ DeliveredMeansHandled
  BY DEF Init, CompletesAreEarned, DeliveredMeansHandled
<1> QED BY <1>1, HandledStep, TypeCorrect, PTL DEF Spec

-----------------------------------------------------------------------------
\* The attempt budget.

\* Deliveries that have been claimed and have not reached their handler.
Claimed == {j \in jobs : j.stage = "claimed"}

\* Such a delivery belongs to the current drive of its message or to an earlier
\* one, and its attempt is one the row has counted.
ClaimedIsCounted ==
  \A j \in Claimed :
    /\ j.drive <= drive[j.msg]
    /\ j.drive = drive[j.msg] => j.attempts \in 1..attempts[j.msg]

\* No attempt of the current drive is claimed twice.
AttemptsAreUnique ==
  \A i, j \in Claimed :
    (/\ i.msg = j.msg /\ i.attempts = j.attempts
     /\ i.drive = drive[i.msg] /\ j.drive = drive[j.msg]) => i = j

\* The attempts of a message's budget that may still run a handler.
Unused(m) ==
  {k \in 1..MaxAttempts :
     \/ k > attempts[m]
     \/ \E j \in Claimed : j.msg = m /\ j.drive = drive[m] /\ j.attempts = k}

\* The runs so far and those to come fit the budget.
RunsFit == \A m \in Messages : runs[m] + Cardinality(Unused(m)) <= MaxAttempts

BudgetInv == ClaimedIsCounted /\ AttemptsAreUnique /\ RunsFit

\* There are never more attempts left than the budget has.
LEMMA AttemptsFit ==
  ASSUME NEW S \in SUBSET (1..MaxAttempts)
  PROVE  IsFiniteSet(S) /\ Cardinality(S) \in Nat /\ Cardinality(S) <= MaxAttempts
<1>1. MaxAttempts \in Nat
  BY OutboxAssumption
<1>2. IsFiniteSet(1..MaxAttempts) /\ Cardinality(1..MaxAttempts) = MaxAttempts
  BY <1>1, FS_Interval
<1> QED BY <1>2, FS_Subset, FS_CardinalityType

\* Likewise for the attempts of a message that are unused.
LEMMA UnusedFits ==
  ASSUME NEW m
  PROVE  /\ IsFiniteSet(Unused(m))
         /\ Cardinality(Unused(m)) \in Nat /\ Cardinality(Unused(m)) <= MaxAttempts
  BY AttemptsFit DEF Unused

\* A step that neither claims, runs nor redrives keeps the budget.
LEMMA BudgetKept ==
  ASSUME TypeOK, BudgetInv, UNCHANGED <<attempts, drive, runs>>, Claimed' \subseteq Claimed
  PROVE  BudgetInv'
<1>1. ClaimedIsCounted' /\ AttemptsAreUnique'
  BY DEF BudgetInv, ClaimedIsCounted, AttemptsAreUnique
<1>2. ASSUME NEW m \in Messages PROVE (runs[m] + Cardinality(Unused(m)) <= MaxAttempts)'
  <2>1. (Unused(m))' \subseteq Unused(m)
    BY DEF Unused
  <2>2. Cardinality((Unused(m))') \in Nat /\ Cardinality((Unused(m))') <= Cardinality(Unused(m))
    BY <2>1, UnusedFits, FS_Subset, FS_CardinalityType
  <2>3. runs[m] \in Nat /\ MaxAttempts \in Nat
    BY OutboxAssumption DEF TypeOK
  <2> QED BY <2>2, <2>3, UnusedFits DEF BudgetInv, RunsFit
<1> QED BY <1>1, <1>2 DEF BudgetInv, RunsFit

\* A claim counts the attempt that it hands out.
LEMMA ClaimInBudget ==
  ASSUME TypeOK, BudgetInv, NEW r \in Relays, claim(r)
  PROVE  BudgetInv'
<1>0. RowTypes /\ JobTypes /\ HistoryTypes
  BY TypeParts
<1> DEFINE New(m) == [relay |-> r, msg |-> m, attempts |-> attempts'[m], stage |-> "claimed",
                      claim |-> claims'[m], drive |-> drive[m]]
<1>1. PICK batch \in SUBSET Claimable :
        /\ attempts' = [m \in Messages |-> IF m \in batch THEN attempts[m] + 1 ELSE attempts[m]]
        /\ jobs' = jobs \cup {New(m) : m \in batch}
        /\ drive' = drive /\ runs' = runs
  BY DEF claim
<1>2. batch \subseteq Messages
  BY DEF Claimable
<1>3. \A m \in batch : /\ New(m).msg = m /\ New(m).attempts = attempts[m] + 1
                       /\ New(m).drive = drive[m] /\ New(m).stage = "claimed"
  BY <1>1, <1>2
<1>4. Claimed' = Claimed \cup {New(m) : m \in batch}
  BY <1>1, <1>3 DEF Claimed
<1>5. \A m \in Messages : /\ attempts[m] \in Nat /\ drive[m] \in Nat
                          /\ attempts'[m] = IF m \in batch THEN attempts[m] + 1 ELSE attempts[m]
  BY <1>0, <1>1, OutboxAssumption DEF RowTypes, HistoryTypes, TypeOK
<1>6. \A j \in Claimed : j.msg \in Messages /\ j.drive \in Nat /\ j.attempts \in Nat
  BY <1>0, OutboxAssumption DEF Claimed, JobTypes, Jobs
<1> HIDE DEF New
<1>7. ClaimedIsCounted'
  <2>1. ASSUME NEW j \in Claimed
        PROVE  j.drive <= drive[j.msg] /\ (j.drive = drive[j.msg] => j.attempts \in 1..attempts'[j.msg])
    BY <1>5, <1>6 DEF BudgetInv, ClaimedIsCounted
  <2>2. ASSUME NEW m \in batch
        PROVE  /\ New(m).drive <= drive[New(m).msg]
               /\ New(m).attempts \in 1..attempts'[New(m).msg]
    BY <1>2, <1>3, <1>5
  <2> QED BY <1>1, <1>4, <2>1, <2>2 DEF ClaimedIsCounted
<1>8. AttemptsAreUnique'
  <2>1. ASSUME NEW j \in Claimed, NEW m \in batch, j.msg = m, j.drive = drive[m]
        PROVE  j.attempts # New(m).attempts
    BY <1>2, <1>3, <1>5, <1>6, <2>1 DEF BudgetInv, ClaimedIsCounted
  <2> QED BY <1>1, <1>3, <1>4, <2>1 DEF BudgetInv, AttemptsAreUnique
<1>9. ASSUME NEW m \in Messages PROVE (Unused(m))' = Unused(m)
  <2>1. ASSUME NEW k \in 1..MaxAttempts PROVE k \in Unused(m) <=> k \in (Unused(m))'
    <3>1. CASE m \in batch
      <4>1. New(m) \in Claimed'
        BY <1>4, <3>1
      <4>2. CASE k = attempts[m] + 1
        BY <1>1, <1>3, <1>5, <3>1, <4>1, <4>2 DEF Unused
      <4>3. CASE k # attempts[m] + 1
        <5>1. k > attempts[m] <=> k > attempts'[m]
          BY <1>5, <3>1, <4>3
        <5>2. \A n \in batch : ~ (New(n).msg = m /\ New(n).attempts = k)
          BY <1>3, <4>3
        <5> QED BY <1>1, <1>4, <5>1, <5>2 DEF Unused
      <4> QED BY <4>2, <4>3
    <3>2. CASE m \notin batch
      <4>1. attempts'[m] = attempts[m] /\ \A n \in batch : New(n).msg # m
        BY <1>3, <1>5, <3>2
      <4> QED BY <1>1, <1>4, <4>1 DEF Unused
    <3> QED BY <3>1, <3>2
  <2> QED BY <2>1 DEF Unused
<1>10. RunsFit'
  BY <1>1, <1>9 DEF BudgetInv, RunsFit
<1> QED BY <1>7, <1>8, <1>10 DEF BudgetInv

\* A run uses up the attempt of its delivery.
LEMMA RunInBudget ==
  ASSUME TypeOK, BudgetInv, NEW j \in jobs, j.stage = "claimed", ~ Exhausted(j),
         MoveTo(j, "running"), UNCHANGED <<attempts, drive>>,
         runs' = [runs EXCEPT ![j.msg] = IF j.drive = drive[j.msg] THEN @ + 1 ELSE @]
  PROVE  BudgetInv'
<1>0. /\ j \in Jobs /\ j.msg \in Messages /\ j.attempts \in Nat /\ j \in Claimed
      /\ runs \in [Messages -> Nat] /\ MaxAttempts \in Nat
  BY OutboxAssumption DEF TypeOK, Jobs, Claimed
<1>1. [j EXCEPT !.stage = "running"].stage = "running"
  BY <1>0 DEF Jobs
<1>2. Claimed' = Claimed \ {j}
  BY <1>1 DEF Claimed, MoveTo
<1>3. ClaimedIsCounted' /\ AttemptsAreUnique'
  BY <1>2 DEF BudgetInv, ClaimedIsCounted, AttemptsAreUnique
<1>4. ASSUME NEW m \in Messages, ~ (m = j.msg /\ j.drive = drive[m])
      PROVE  (runs[m] + Cardinality(Unused(m)) <= MaxAttempts)'
  <2>1. runs'[m] = runs[m]
    BY <1>0, <1>4
  <2>2. (Unused(m))' = Unused(m)
    BY <1>2, <1>4 DEF Unused
  <2> QED BY <2>1, <2>2 DEF BudgetInv, RunsFit
<1>5. ASSUME j.drive = drive[j.msg]
      PROVE  (runs[j.msg] + Cardinality(Unused(j.msg)) <= MaxAttempts)'
  <2>1. /\ runs'[j.msg] = runs[j.msg] + 1 /\ runs[j.msg] \in Nat
        /\ attempts[j.msg] \in Nat
    BY <1>0, <1>5 DEF TypeOK
  <2>2. j.attempts \in 1..attempts[j.msg] /\ j.attempts <= MaxAttempts
    BY <1>0, <1>5 DEF BudgetInv, ClaimedIsCounted, Exhausted
  <2>3. j.attempts \in Unused(j.msg)
    BY <1>0, <1>5, <2>2 DEF Unused
  <2>4. \A i \in Claimed : i.msg = j.msg /\ i.drive = drive[j.msg] /\ i.attempts = j.attempts => i = j
    BY <1>0, <1>5 DEF BudgetInv, AttemptsAreUnique
  <2>5. (Unused(j.msg))' = Unused(j.msg) \ {j.attempts}
    <3>1. j.attempts \notin (Unused(j.msg))'
      BY <1>2, <2>1, <2>2, <2>4 DEF Unused
    <3>2. (Unused(j.msg))' \subseteq Unused(j.msg)
      BY <1>2 DEF Unused
    <3>3. ASSUME NEW k \in Unused(j.msg), k # j.attempts PROVE k \in (Unused(j.msg))'
      BY <1>2, <3>3 DEF Unused
    <3> QED BY <3>1, <3>2, <3>3
  <2>6. Cardinality((Unused(j.msg))') = Cardinality(Unused(j.msg)) - 1
    BY <2>3, <2>5, UnusedFits, FS_RemoveElement
  <2> QED BY <1>0, <2>1, <2>6, UnusedFits DEF BudgetInv, RunsFit
<1>6. RunsFit'
  BY <1>4, <1>5 DEF RunsFit
<1> QED BY <1>3, <1>6 DEF BudgetInv

\* A redrive starts over with a budget of its own, and what was claimed before
\* it does not count against that.
LEMMA RedriveInBudget ==
  ASSUME TypeOK, BudgetInv, redrive
  PROVE  BudgetInv'
<1>0. /\ drive \in [Messages -> Nat] /\ MaxAttempts \in Nat
      /\ \A j \in Claimed : j.msg \in Messages /\ j.drive \in Nat
  BY OutboxAssumption DEF TypeOK, Claimed, Jobs
<1>1. /\ attempts' = [m \in Messages |-> IF m \in Dead THEN 0 ELSE attempts[m]]
      /\ drive' = [m \in Messages |-> IF m \in Dead THEN drive[m] + 1 ELSE drive[m]]
      /\ runs' = [m \in Messages |-> IF m \in Dead THEN 0 ELSE runs[m]]
      /\ jobs' = jobs
  BY DEF redrive
<1>2. Claimed' = Claimed
  BY <1>1 DEF Claimed
<1>3. \A j \in Claimed :
        /\ j.drive <= drive[j.msg]
        /\ j.msg \in Dead => drive'[j.msg] = drive[j.msg] + 1
        /\ j.msg \notin Dead => drive'[j.msg] = drive[j.msg] /\ attempts'[j.msg] = attempts[j.msg]
  BY <1>0, <1>1 DEF BudgetInv, ClaimedIsCounted
<1>4. \A j \in Claimed : j.drive <= drive'[j.msg]
                         /\ (j.drive = drive'[j.msg] => j.msg \notin Dead /\ drive'[j.msg] = drive[j.msg])
  BY <1>0, <1>3
<1>5. ClaimedIsCounted'
  BY <1>2, <1>3, <1>4 DEF BudgetInv, ClaimedIsCounted
<1>6. AttemptsAreUnique'
  BY <1>2, <1>4 DEF BudgetInv, AttemptsAreUnique
<1>7. ASSUME NEW m \in Messages PROVE (runs[m] + Cardinality(Unused(m)) <= MaxAttempts)'
  <2>1. CASE m \in Dead
    <3>1. runs'[m] = 0
      BY <1>1, <2>1
    <3>2. /\ Cardinality((Unused(m))') \in Nat /\ Cardinality((Unused(m))') <= MaxAttempts
      BY AttemptsFit DEF Unused
    <3> QED BY <1>0, <3>1, <3>2
  <2>2. CASE m \notin Dead
    <3>1. runs'[m] = runs[m] /\ drive'[m] = drive[m] /\ attempts'[m] = attempts[m]
      BY <1>1, <2>2
    <3>2. (Unused(m))' = Unused(m)
      BY <1>2, <3>1 DEF Unused
    <3> QED BY <3>1, <3>2 DEF BudgetInv, RunsFit
  <2> QED BY <2>1, <2>2
<1> QED BY <1>5, <1>6, <1>7 DEF BudgetInv, RunsFit

\* Every step keeps the budget.
LEMMA BudgetStep ==
  ASSUME TypeOK, BudgetInv, [Next]_vars
  PROVE  BudgetInv'
<1>0. JobTypes
  BY TypeParts
<1>1. CASE UNCHANGED <<attempts, drive, runs, jobs>>
  BY <1>1, BudgetKept DEF Claimed
<1>2. ASSUME NEW m \in Messages,
             publish(m) \/ Commit(m) \/ Rollback(m) \/ BecomesDue(m) \/ Overrun(m)
      PROVE  UNCHANGED <<attempts, drive, runs, jobs>>
  BY <1>2 DEF publish, Commit, Rollback, BecomesDue, Overrun, history
<1>3. ASSUME NEW r \in Relays, claim(r) PROVE BudgetInv'
  BY <1>3, ClaimInBudget
<1>4. ASSUME NEW j \in jobs, deliver(j) \/ HandlerEnds(j) PROVE BudgetInv'
  <2>1. UNCHANGED <<attempts, drive>>
    BY <1>4 DEF deliver, HandlerEnds, row
  <2>2. CASE deliver(j) /\ ~ Exhausted(j)
    BY <2>1, <2>2, RunInBudget DEF deliver
  <2>3. CASE HandlerEnds(j) \/ (deliver(j) /\ Exhausted(j))
    <3>1. UNCHANGED runs /\ \E stage \in Settling : MoveTo(j, stage)
      BY <2>3 DEF deliver, HandlerEnds, RetryOrDead, Settling
    <3>2. \A stage \in Settling : [j EXCEPT !.stage = stage].stage # "claimed"
      BY <1>0 DEF JobTypes, Jobs, Settling
    <3>3. Claimed' \subseteq Claimed
      BY <3>1, <3>2 DEF Claimed, MoveTo
    <3> QED BY <2>1, <3>1, <3>3, BudgetKept
  <2> QED BY <1>4, <2>2, <2>3
<1>5. ASSUME NEW j \in jobs, settle(j) \/ LoseSettle(j) PROVE BudgetInv'
  <2>1. UNCHANGED <<attempts, drive, runs>> /\ Claimed' \subseteq Claimed
    BY <1>5 DEF settle, LoseSettle, row, history, Claimed
  <2> QED BY <2>1, BudgetKept
<1>6. ASSUME NEW r \in Relays, StopRelay(r) \/ DrainEnds(r) \/ Crash(r) \/ Restart(r)
      PROVE  BudgetInv'
  <2>1. UNCHANGED <<attempts, drive, runs>>
    BY <1>6 DEF StopRelay, DrainEnds, Crash, Restart, row, history
  <2>2. CASE CutOff(JobsOf(r))
    <3>1. PICK late \in SUBSET Orphans(JobsOf(r)) : jobs' = (jobs \ JobsOf(r)) \cup late
      BY <2>2 DEF CutOff
    <3>2. JobsOf(r) \in SUBSET jobs
      BY DEF JobsOf
    <3>3. \A k \in late : k.stage \in Settling
      BY <1>0, <3>1, <3>2, OrphansEffect
    <3>4. Claimed' \subseteq Claimed
      BY <3>1, <3>3 DEF Claimed, Settling
    <3> QED BY <2>1, <3>4, BudgetKept
  <2> QED BY <1>1, <1>6, <2>1, <2>2 DEF StopRelay, DrainEnds, Crash, Restart
<1>7. CASE redrive
  BY <1>7, RedriveInBudget
<1>8. CASE purge \/ UNCHANGED vars
  BY <1>1, <1>8 DEF purge, vars, row, history
<1> QED BY <1>1, <1>2, <1>3, <1>4, <1>5, <1>6, <1>7, <1>8 DEF Next

\* Crashes, overruns and redrives included, a handler runs for a message at most
\* max_attempts times before somebody redrives it (_deliver).
THEOREM HandlersStayInBudget == Spec => []RunsWithinBudget
<1>1. Init => BudgetInv
  <2> SUFFICES ASSUME Init PROVE BudgetInv
    OBVIOUS
  <2>1. Claimed = {}
    BY DEF Init, Claimed
  <2>2. RunsFit
    <3>1. \A m \in Messages : runs[m] = 0
      BY DEF Init
    <3> QED BY <3>1, UnusedFits, OutboxAssumption DEF RunsFit
  <2> QED BY <2>1, <2>2 DEF BudgetInv, ClaimedIsCounted, AttemptsAreUnique
<1>2. TypeOK /\ BudgetInv => RunsWithinBudget
  <2> SUFFICES ASSUME TypeOK, BudgetInv, NEW m \in Messages PROVE runs[m] <= MaxAttempts
    BY DEF RunsWithinBudget
  <2> QED BY UnusedFits, OutboxAssumption DEF TypeOK, BudgetInv, RunsFit
<1> QED BY <1>1, <1>2, BudgetStep, TypeCorrect, PTL DEF Spec

-----------------------------------------------------------------------------
\* Duplicates.

\* Nothing takes a committed message back: a row only moves among the states of
\* committed messages and those of messages that are settled and gone.
LEMMA CommittedStaysStep ==
  ASSUME TypeOK, [Next]_vars, NEW n \in Messages, state[n] \in Committed \cup Terminal
  PROVE  state'[n] \in Committed \cup Terminal
<1>0. RowTypes /\ JobTypes
  BY TypeParts
<1>1. CASE UNCHANGED state
  BY <1>1
<1>2. ASSUME NEW m \in Messages, publish(m) \/ Commit(m) \/ Rollback(m)
      PROVE  state'[n] \in Committed \cup Terminal
  <2>1. m # n /\ state'[n] = state[n]
    BY <1>0, <1>2 DEF publish, Commit, Rollback, RowTypes, Committed, Terminal
  <2> QED BY <2>1
<1>3. ASSUME NEW r \in Relays, claim(r) PROVE state'[n] \in Committed \cup Terminal
  BY <1>3 DEF claim, Committed
<1>4. ASSUME NEW j \in jobs, settle(j) PROVE state'[n] \in Committed \cup Terminal
  <2>1. state'[n] = state[n] \/ state'[n] = SettledState(j)
    BY <1>0, <1>4 DEF settle, RowTypes
  <2>2. SettledState(j) \in Committed \cup Terminal
    BY <1>4 DEF settle, SettledState, Settling, Committed, Terminal
  <2> QED BY <2>1, <2>2
<1>5. CASE redrive \/ purge
  BY <1>5 DEF redrive, purge, Committed, Terminal
<1>6. ASSUME NEW m \in Messages, BecomesDue(m) \/ Overrun(m) PROVE UNCHANGED state
  BY <1>6 DEF BecomesDue, Overrun
<1>7. ASSUME NEW j \in jobs, deliver(j) \/ HandlerEnds(j) \/ LoseSettle(j) PROVE UNCHANGED state
  BY <1>7 DEF deliver, HandlerEnds, LoseSettle, row
<1>8. ASSUME NEW r \in Relays, StopRelay(r) \/ DrainEnds(r) \/ Crash(r) \/ Restart(r)
      PROVE  UNCHANGED state
  BY <1>8 DEF StopRelay, DrainEnds, Crash, Restart, row
<1>9. UNCHANGED vars => UNCHANGED state
  BY DEF vars, row
<1> QED BY <1>1, <1>2, <1>3, <1>4, <1>5, <1>6, <1>7, <1>8, <1>9 DEF Next

\* A step that skips a publish finds a committed message with its key.
LEMMA SkippedStep ==
  ASSUME TypeOK, SkippedHasTwin, [Next]_vars
  PROVE  SkippedHasTwin'
<1>0. RowTypes
  BY TypeParts
<1> SUFFICES ASSUME NEW m \in Messages, state'[m] = "skipped"
             PROVE  \E n \in Twins \ {m} : state'[n] \in Committed \cup Terminal
  BY DEF SkippedHasTwin
<1>1. CASE state[m] = "skipped"
  <2>1. PICK n \in Twins \ {m} : state[n] \in Committed \cup Terminal
    BY <1>1 DEF SkippedHasTwin
  <2>2. n \in Messages
    BY OutboxAssumption
  <2> QED BY <2>1, <2>2, CommittedStaysStep
<1>2. CASE state[m] # "skipped"
  <2>1. publish(m)
    <3>1. ASSUME NEW x \in Messages, publish(x) \/ Commit(x) \/ Rollback(x) PROVE publish(m)
      BY <1>0, <1>2, <3>1 DEF publish, Commit, Rollback, RowTypes
    <3>2. ASSUME NEW r \in Relays, claim(r) PROVE FALSE
      BY <1>2, <3>2 DEF claim
    <3>3. ASSUME NEW j \in jobs, settle(j) PROVE FALSE
      BY <1>0, <1>2, <3>3 DEF settle, RowTypes, SettledState, Settling
    <3>4. ~ redrive /\ ~ purge
      BY <1>2 DEF redrive, purge
    <3>5. ~ UNCHANGED state
      BY <1>2
    <3>6. ASSUME NEW x \in Messages, BecomesDue(x) \/ Overrun(x) PROVE FALSE
      BY <3>5, <3>6 DEF BecomesDue, Overrun
    <3>7. ASSUME NEW j \in jobs, deliver(j) \/ HandlerEnds(j) \/ LoseSettle(j) PROVE FALSE
      BY <3>5, <3>7 DEF deliver, HandlerEnds, LoseSettle, row
    <3>8. ASSUME NEW r \in Relays, StopRelay(r) \/ DrainEnds(r) \/ Crash(r) \/ Restart(r)
          PROVE  FALSE
      BY <3>5, <3>8 DEF StopRelay, DrainEnds, Crash, Restart, row
    <3>9. ~ UNCHANGED vars
      BY <3>5 DEF vars, row
    <3> QED BY <3>1, <3>2, <3>3, <3>4, <3>6, <3>7, <3>8, <3>9 DEF Next
  <2>2. Collisions(m) # {} /\ BlockedBy(m) = {}
    BY <1>0, <2>1 DEF publish, RowTypes
  <2>3. PICK n \in Twins \ {m} : state[n] \in Committed
    BY <2>2 DEF Collisions, BlockedBy
  <2>4. n \in Messages
    BY OutboxAssumption
  <2> QED BY <2>3, <2>4, CommittedStaysStep
<1> QED BY <1>1, <1>2

\* A publish that is skipped as a duplicate has a committed message with the same
\* dedup_key, which nothing takes back (publish: ON CONFLICT DO NOTHING waits for
\* the transactions that are still open).
THEOREM DuplicatesAreCovered == Spec => []SkippedHasTwin
<1>1. Init => SkippedHasTwin
  BY DEF Init, SkippedHasTwin
<1> QED BY <1>1, SkippedStep, TypeCorrect, PTL DEF Spec

=============================================================================
