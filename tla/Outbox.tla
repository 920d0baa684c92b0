------------------------------- MODULE Outbox -------------------------------
(***************************************************************************)
(* grelmicro/outbox: producers that stage messages in their transactions,  *)
(* the table of the Postgres adapter, and one relay per replica that       *)
(* claims, runs and settles, for the messages of one topic.                *)
(*                                                                         *)
(* A clock is not needed: what matters of available_at is whether it has   *)
(* passed (`due`).  A delivery is a job, from the claim that creates it to *)
(* the statement that settles it; several jobs for the same message exist  *)
(* at once when a lease runs out under a slow handler.                     *)
(* Dead-lettering is on (dead_letter, the default): without it a message   *)
(* that always fails is retried for ever.                                  *)
(***************************************************************************)
EXTENDS Naturals, FiniteSets

CONSTANTS Relays,
          Nobody,       \* relay of a statement whose process is gone
          Capable,      \* relays with a handler for the topic
          Messages,
          Twins,        \* messages published with one and the same dedup_key
          MaxAttempts,  \* max_attempts
          BatchSize,    \* batch_size
          Concurrency,  \* concurrency
          Keep,         \* keep_delivered
          MaxRedrives,  \* bound on redrives
          MaxFaults     \* bound on crashes, shutdowns, lost statements, overruns

ASSUME OutboxAssumption ==
  /\ Nobody \notin Relays
  /\ Capable \subseteq Relays
  /\ Twins \subseteq Messages
  /\ {MaxAttempts, BatchSize, Concurrency} \subseteq Nat \ {0}
  /\ Keep \in BOOLEAN
  /\ {MaxRedrives, MaxFaults} \subseteq Nat

VARIABLES state,     \* state[m]: where the row of m is in its life
          attempts,  \* attempts[m]: the attempts column
          due,       \* due[m]: available_at <= NOW()
          up,        \* up[r]: "up", "draining" or "down"
          jobs,      \* deliveries under way
          drive,     \* drive[m]: redrives of m so far
          faults,    \* faults so far
          claims,    \* history: claims[m], claims of m so far
          runs,      \* history: runs[m], handler runs since m's last redrive
          done       \* history: messages a handler has succeeded for

row == <<state, attempts, due>>
history == <<claims, runs, done>>
vars == <<row, up, jobs, drive, faults, history>>

Committed == {"pending", "processing", "delivered", "dead"}
Terminal == {"delivered", "dead", "deleted", "purged"}
Settling == {"complete", "retry", "dead"}

States == Committed \cup Terminal \cup {"unborn", "staged", "rolledback", "skipped"}

Jobs == [relay : Relays \cup {Nobody}, msg : Messages, attempts : Nat,
         stage : {"claimed", "running"} \cup Settling, claim : Nat, drive : 0..MaxRedrives]

TypeOK ==
  /\ state \in [Messages -> States]
  /\ attempts \in [Messages -> Nat]
  /\ due \in [Messages -> BOOLEAN]
  /\ up \in [Relays -> {"up", "draining", "down"}]
  /\ jobs \subseteq Jobs
  /\ drive \in [Messages -> 0..MaxRedrives]
  /\ faults \in 0..MaxFaults
  /\ claims \in [Messages -> Nat] /\ runs \in [Messages -> Nat]
  /\ done \subseteq Messages
  /\ \A j \in jobs : j.relay = Nobody => j.stage \in Settling

Init ==
  /\ state = [m \in Messages |-> "unborn"]
  /\ attempts = [m \in Messages |-> 0]
  /\ due = [m \in Messages |-> FALSE]
  /\ up = [r \in Relays |-> "up"]
  /\ jobs = {}
  /\ drive = [m \in Messages |-> 0]
  /\ faults = 0
  /\ claims = [m \in Messages |-> 0]
  /\ runs = [m \in Messages |-> 0]
  /\ done = {}

Fault == faults < MaxFaults /\ faults' = faults + 1

-----------------------------------------------------------------------------
\* Producers.

\* Rows that carry the dedup_key of m.
Collisions(m) ==
  {n \in Twins \ {m} : m \in Twins /\ state[n] \in Committed \cup {"staged"}}

BlockedByNone(m) == {}
\* Those whose transaction is still open: the insert waits for them.
BlockedBy(m) == {n \in Collisions(m) : state[n] = "staged"}

\* publish: INSERT ... ON CONFLICT DO NOTHING in the caller's transaction.
publish(m) ==
  /\ state[m] = "unborn"
  /\ BlockedBy(m) = {}
  /\ state' = [state EXCEPT ![m] = IF Collisions(m) = {} THEN "staged" ELSE "skipped"]
  /\ UNCHANGED <<attempts, due, up, jobs, drive, faults, history>>

\* The caller's transaction ends; a message with a delay is not due yet.
Commit(m) ==
  /\ state[m] = "staged"
  /\ state' = [state EXCEPT ![m] = "pending"]
  /\ \E d \in BOOLEAN : due' = [due EXCEPT ![m] = d]
  /\ UNCHANGED <<attempts, up, jobs, drive, faults, history>>

Rollback(m) ==
  /\ state[m] = "staged"
  /\ state' = [state EXCEPT ![m] = "rolledback"]
  /\ UNCHANGED <<attempts, due, up, jobs, drive, faults, history>>

-----------------------------------------------------------------------------
\* Relays.

JobsOf(r) == {j \in jobs : j.relay = r}

ClaimablePending == {m \in Messages : state[m] = "pending" /\ due[m]}
Claimable == {m \in Messages : state[m] \in {"pending", "processing"} /\ due[m]}

\* The claim of _run: a batch of due messages, at most as many as there are
\* free handler slots.  SKIP LOCKED may leave out rows a concurrent statement
\* has locked.
claim(r) ==
  /\ up[r] = "up" /\ r \in Capable
  /\ \E batch \in SUBSET Claimable :
       /\ batch # {}
       /\ Cardinality(batch) <= BatchSize
       /\ Cardinality(batch) + Cardinality(JobsOf(r)) <= Concurrency
       /\ state' = [m \in Messages |-> IF m \in batch THEN "processing" ELSE state[m]]
       /\ attempts' = [m \in Messages |-> IF m \in batch THEN attempts[m] + 1 ELSE attempts[m]]
       /\ due' = [m \in Messages |-> IF m \in batch THEN FALSE ELSE due[m]]
       /\ claims' = [m \in Messages |-> IF m \in batch THEN claims[m] + 1 ELSE claims[m]]
       /\ jobs' = jobs \cup
            {[relay |-> r, msg |-> m, attempts |-> attempts'[m], stage |-> "claimed",
              claim |-> claims'[m], drive |-> drive[m]] : m \in batch}
  /\ UNCHANGED <<up, drive, faults, runs, done>>

MoveTo(j, stage) == jobs' = (jobs \ {j}) \cup {[j EXCEPT !.stage = stage]}

ExhaustedLate(j) == j.attempts > MaxAttempts + 1
Exhausted(j) == j.attempts > MaxAttempts

\* _deliver, up to the await of the handler: a message past its attempt budget
\* is dead-lettered without a run.
deliver(j) ==
  /\ j.stage = "claimed"
  /\ \/ Exhausted(j) /\ MoveTo(j, "dead") /\ UNCHANGED runs
     \/ /\ ~Exhausted(j) /\ MoveTo(j, "running")
        /\ runs' = [runs EXCEPT ![j.msg] = IF j.drive = drive[j.msg] THEN @ + 1 ELSE @]
  /\ UNCHANGED <<row, up, drive, faults, claims, done>>

\* _settle_retry: dead-lettered when the attempts are used up.
RetryOrDead(j) == IF j.attempts >= MaxAttempts THEN "dead" ELSE "retry"

\* The handler ends: it succeeds, asks for a retry or raises, or gives the
\* message up (Cancel, or a payload that does not validate).
HandlerEnds(j) ==
  /\ j.stage = "running"
  /\ \/ MoveTo(j, "complete") /\ done' = done \cup {j.msg}
     \/ MoveTo(j, RetryOrDead(j)) /\ UNCHANGED done
     \/ MoveTo(j, "dead") /\ UNCHANGED done
  /\ UNCHANGED <<row, up, drive, faults, claims, runs>>

MatchesAny(j) == state[j.msg] \in Committed
\* The WHERE clause of every settle statement.
Matches(j) == state[j.msg] \in Committed /\ attempts[j.msg] = j.attempts

SettledStateDropsDead(j) ==
  CASE j.stage = "complete" -> IF Keep THEN "delivered" ELSE "deleted"
    [] j.stage = "retry" -> "pending"
    [] j.stage = "dead" -> "deleted"
\* What the settle statement makes of the row.
SettledState(j) ==
  CASE j.stage = "complete" -> IF Keep THEN "delivered" ELSE "deleted"
    [] j.stage = "retry" -> "pending"
    [] j.stage = "dead" -> "dead"

\* complete and reschedule at the backend.
settle(j) ==
  /\ j.stage \in Settling
  /\ \/ /\ Matches(j)
        /\ state' = [state EXCEPT ![j.msg] = SettledState(j)]
        /\ \/ j.stage = "retry" /\ \E d \in BOOLEAN : due' = [due EXCEPT ![j.msg] = d]
           \/ j.stage # "retry" /\ UNCHANGED due
     \/ ~Matches(j) /\ UNCHANGED <<state, due>>
  /\ jobs' = jobs \ {j}
  /\ UNCHANGED <<attempts, up, drive, faults, history>>

\* _settle: the statement fails; that is logged and the claim is left behind.
LoseSettle(j) ==
  /\ j.stage \in Settling
  /\ Fault
  /\ jobs' = jobs \ {j}
  /\ UNCHANGED <<row, up, drive, history>>

\* A handler or settle statement that is cut off: its claim is left behind,
\* but a statement already sent may still reach the server.
Orphans(cut) == {[j EXCEPT !.relay = Nobody] : j \in {i \in cut : i.stage \in Settling}}

CutOff(cut) == \E late \in SUBSET Orphans(cut) : jobs' = (jobs \ cut) \cup late

\* __aexit__: no more claims, then handlers finish within shutdown_timeout or
\* are cancelled.
StopRelay(r) ==
  /\ up[r] = "up"
  /\ Fault
  /\ up' = [up EXCEPT ![r] = "draining"]
  /\ UNCHANGED <<row, jobs, drive, history>>

DrainEnds(r) ==
  /\ up[r] = "draining"
  /\ CutOff(JobsOf(r))
  /\ up' = [up EXCEPT ![r] = "down"]
  /\ UNCHANGED <<row, drive, faults, history>>

Crash(r) ==
  /\ up[r] # "down"
  /\ Fault
  /\ CutOff(JobsOf(r))
  /\ up' = [up EXCEPT ![r] = "down"]
  /\ UNCHANGED <<row, drive, history>>

Restart(r) ==
  /\ up[r] = "down"
  /\ up' = [up EXCEPT ![r] = "up"]
  /\ UNCHANGED <<row, jobs, drive, faults, history>>

-----------------------------------------------------------------------------
\* Time and operators.

HasJob(m) == \E j \in jobs : j.msg = m /\ j.relay # Nobody

\* available_at passes: a delay or a backoff is over, or a lease nobody works
\* under any more runs out.
BecomesDue(m) ==
  /\ state[m] \in {"pending", "processing"} /\ ~due[m]
  /\ state[m] = "processing" => ~HasJob(m)
  /\ due' = [due EXCEPT ![m] = TRUE]
  /\ UNCHANGED <<state, attempts, up, jobs, drive, faults, history>>

\* The lease runs out while a relay still works on the message.
Overrun(m) ==
  /\ state[m] = "processing" /\ ~due[m] /\ HasJob(m)
  /\ Fault
  /\ due' = [due EXCEPT ![m] = TRUE]
  /\ UNCHANGED <<state, attempts, up, jobs, drive, history>>

Dead == {m \in Messages : state[m] = "dead"}

\* redrive: every dead message of the topic is pending again.
redrive ==
  /\ Dead # {}
  /\ \A m \in Dead : drive[m] < MaxRedrives
  /\ state' = [m \in Messages |-> IF m \in Dead THEN "pending" ELSE state[m]]
  /\ attempts' = [m \in Messages |-> IF m \in Dead THEN 0 ELSE attempts[m]]
  /\ due' = [m \in Messages |-> IF m \in Dead THEN TRUE ELSE due[m]]
  /\ drive' = [m \in Messages |-> IF m \in Dead THEN drive[m] + 1 ELSE drive[m]]
  /\ runs' = [m \in Messages |-> IF m \in Dead THEN 0 ELSE runs[m]]
  /\ UNCHANGED <<up, jobs, faults, claims, done>>

\* purge and the retention janitor: terminal rows old enough are deleted.
purge ==
  /\ \E old \in SUBSET {m \in Messages : state[m] \in {"delivered", "dead"}} :
       /\ old # {}
       /\ state' = [m \in Messages |-> IF m \in old THEN "purged" ELSE state[m]]
  /\ UNCHANGED <<attempts, due, up, jobs, drive, faults, history>>

Next ==
  \/ \E m \in Messages : publish(m) \/ Commit(m) \/ Rollback(m) \/ BecomesDue(m) \/ Overrun(m)
  \/ \E r \in Relays : claim(r) \/ StopRelay(r) \/ DrainEnds(r) \/ Crash(r) \/ Restart(r)
  \/ \E j \in jobs : deliver(j) \/ HandlerEnds(j) \/ settle(j) \/ LoseSettle(j)
  \/ redrive
  \/ purge

Spec == Init /\ [][Next]_vars

\* Relays are restarted and poll, handlers end, statements are answered and
\* available_at passes.
Fairness ==
  /\ \A r \in Relays :
       WF_vars(claim(r)) /\ WF_vars(Restart(r)) /\ WF_vars(DrainEnds(r))
  /\ \A m \in Messages : WF_vars(BecomesDue(m))
  /\ WF_vars(\E j \in jobs : deliver(j) \/ HandlerEnds(j) \/ settle(j))

FairSpec == Spec /\ Fairness

-----------------------------------------------------------------------------

\* Of all the jobs for a message, however slow, at most one can still settle
\* it: the one of the latest claim.  (Until the message is redriven, which
\* resets the attempts that serve as the fence.)
OnlyLatestSettles ==
  \A j \in jobs : drive[j.msg] = 0 /\ Matches(j) => j.claim = claims[j.msg]

\* A delivered message is never delivered or retried again, and a dead one
\* stays dead until it is purged or redriven, whatever late statements of
\* slow, stopped or crashed relays still arrive.
TerminalIsFinal ==
  [][\A m \in Messages :
       state[m] \in Terminal /\ drive'[m] = 0 => state'[m] \in {state[m], "purged"}]_vars

\* Crashes included, a handler runs at most max_attempts times for a message
\* before somebody redrives it.
RunsWithinBudget == \A m \in Messages : runs[m] <= MaxAttempts

\* A message is taken off the table as delivered only after a handler
\* succeeded for it.
DeliveredMeansHandled ==
  \A m \in Messages : state[m] \in {"delivered", "deleted"} => m \in done

\* A publish that is skipped as a duplicate never loses the event: the message
\* it duplicates was committed.
SkippedHasTwin ==
  \A m \in Messages : state[m] = "skipped" =>
    \E n \in Twins \ {m} : state[n] \in Committed \cup Terminal

\* Every committed message is delivered or dead-lettered in the end.
EventuallySettled ==
  \A m \in Messages : (state[m] = "pending") ~> (state[m] \in Terminal)

\* docs/architecture/outbox.md: "a late write from a slow relay cannot clobber
\* the reclaiming relay's state".
LateWritesAreFenced ==
  \A j \in jobs : j.stage \in Settling /\ Matches(j) => j.claim = claims[j.msg]

=============================================================================
