------------------------------ MODULE CronTask ------------------------------
(***************************************************************************)
(* grelmicro/task/_cron.py: the loop of a CronTask on every worker and the *)
(* schedule backend that hands each fire to one of them.  Times are        *)
(* minutes; the cron expression is the set of its fire times.              *)
(***************************************************************************)
EXTENDS Integers, FiniteSetsExt

CONSTANTS Workers,
          Fires,     \* fire times of the expression
          Grace,     \* misfire_grace_seconds
          MaxTime,   \* bound on the clock
          MaxFaults  \* bound on failed backend calls, cancellations and crashes

CronTaskAssumption ==
  /\ Fires \subseteq 0..MaxTime
  /\ 0 \in Fires
  /\ {Grace, MaxTime, MaxFaults} \subseteq Nat

\* last_fired when nothing is stored: NULL, or an absent key.
NeverFired == -1

\* Stands in its place when no schedule backend is registered.
NoBackend == -2

VARIABLES now,      \* wall clock
          last,     \* backend: last_fired, or NoBackend
          pc,       \* pc[w]: where the loop of w is
          catchup,  \* catchup[w]: the tick is the one at startup
          due,      \* due[w]: fire its tick evaluates
          seen,     \* seen[w]: the `now` of its tick
          wake,     \* wake[w]: _next_fire_time
          errors,   \* workers whose last tick ended in COORDINATION_ERROR
          faults,   \* faults so far
          runs,     \* history: runs[w][f], bodies w started for fire f
          missed,   \* history: missed[f], MISSED reports for fire f
          skipped,  \* history: fires reported SKIPPED
          silent    \* history: fires claimed as the baseline

loop == <<pc, catchup, due, seen, wake, errors>>
history == <<runs, missed, skipped, silent>>
vars == <<now, last, loop, faults, history>>

Durable == last # NoBackend

TypeOK ==
  /\ now \in 0..MaxTime
  /\ last \in Fires \cup {NeverFired, NoBackend}
  /\ pc \in [Workers -> {"down", "read", "baseline", "drop", "claim",
                         "enter", "body", "sleep"}]
  /\ catchup \in [Workers -> BOOLEAN]
  /\ due \in [Workers -> Fires]
  /\ seen \in [Workers -> 0..MaxTime]
  /\ wake \in [Workers -> Fires \cup {MaxTime + 1}]
  /\ errors \subseteq Workers
  /\ faults \in 0..MaxFaults
  /\ runs \in [Workers -> [Fires -> Nat]] /\ missed \in [Fires -> Nat]
  /\ skipped \subseteq Fires /\ silent \subseteq Fires
  /\ \A w \in Workers : pc[w] = "sleep" => wake[w] > seen[w]

Init ==
  /\ now = 0
  /\ last \in {NoBackend, NeverFired, 0}
  /\ pc = [w \in Workers |-> "down"]
  /\ catchup = [w \in Workers |-> FALSE]
  /\ due = [w \in Workers |-> 0]
  /\ seen = [w \in Workers |-> 0]
  /\ wake = [w \in Workers |-> 0]
  /\ errors = {}
  /\ faults = 0
  /\ runs = [w \in Workers |-> [f \in Fires |-> 0]]
  /\ missed = [f \in Fires |-> 0]
  /\ skipped = {} /\ silent = {}

-----------------------------------------------------------------------------
\* The expression.

previous(t) == Max({f \in Fires : f < t} \cup {0})
previous_or_equal(t) == Max({f \in Fires : f <= t})

next_afterInclusive(t) == Min({f \in Fires : f >= t} \cup {MaxTime + 1})
\* MaxTime + 1 stands for a fire beyond the bound.
next_after(t) == Min({f \in Fires : f > t} \cup {MaxTime + 1})

-----------------------------------------------------------------------------
\* The loop.

Goto(w, place) == pc' = [pc EXCEPT ![w] = place]

\* The tick is over: sleep until the next fire after the present.
Sleep(w) ==
  /\ Goto(w, "sleep")
  /\ wake' = [wake EXCEPT ![w] = next_after(now)]
  /\ UNCHANGED <<catchup, due, seen>>

\* _report_unrun_fire with SKIPPED and with MISSED.
ReportSkipped(w) == skipped' = skipped \cup {due[w]} /\ UNCHANGED <<missed, silent>>
ReportMissed(w) == missed' = [missed EXCEPT ![due[w]] = @ + 1] /\ UNCHANGED <<skipped, silent>>
ReportNothing == UNCHANGED <<missed, skipped, silent>>

\* _tick up to its first await.  Without a backend the body runs at once, and
\* there is nothing to catch up with.
Evaluate(w, startup) ==
  /\ due' = [due EXCEPT ![w] = previous_or_equal(now)]
  /\ seen' = [seen EXCEPT ![w] = now]
  /\ catchup' = [catchup EXCEPT ![w] = startup]
  /\ errors' = errors \ {w}
  /\ \/ Durable /\ Goto(w, "read") /\ UNCHANGED wake
     \/ ~Durable /\ ~startup /\ Goto(w, "enter") /\ UNCHANGED wake
     \/ /\ ~Durable /\ startup /\ Goto(w, "sleep")
        /\ wake' = [wake EXCEPT ![w] = next_after(now)]
  /\ UNCHANGED <<now, last, faults, history>>

\* The loop starts with a tick that catches up, then one after every sleep.
Start(w) == pc[w] = "down" /\ Evaluate(w, TRUE)

Wake(w) == pc[w] = "sleep" /\ now >= wake[w] /\ Evaluate(w, FALSE)

Late(w) == seen[w] - due[w] > Grace

\* last_fired answers and the tick decides.
Read(w) ==
  /\ pc[w] = "read"
  /\ \/ /\ last = NeverFired
        /\ Goto(w, "baseline") /\ ReportNothing
        /\ UNCHANGED <<catchup, due, seen, wake>>
     \/ /\ last # NeverFired /\ due[w] <= last
        /\ Sleep(w)
        /\ IF catchup[w] THEN ReportNothing ELSE ReportSkipped(w)
     \/ /\ last # NeverFired /\ due[w] > last
        /\ Goto(w, IF Late(w) THEN "drop" ELSE "claim") /\ ReportNothing
        /\ UNCHANGED <<catchup, due, seen, wake>>
  /\ UNCHANGED <<now, last, errors, faults, runs>>

\* The compare-and-set every adapter's `claim` is.
Wins(w) == last < due[w]

CompareAndSet(w) == last' = IF Wins(w) THEN due[w] ELSE last

\* The baseline of a schedule seen for the first time is claimed in silence.
ClaimBaseline(w) ==
  /\ pc[w] = "baseline"
  /\ CompareAndSet(w)
  /\ Sleep(w)
  /\ silent' = IF Wins(w) THEN silent \cup {due[w]} ELSE silent
  /\ UNCHANGED <<now, errors, faults, runs, missed, skipped>>

\* _drop_late_fire: the winner reports the miss.
DropLateFire(w) ==
  /\ pc[w] = "drop"
  /\ CompareAndSet(w)
  /\ Sleep(w)
  /\ IF Wins(w) THEN ReportMissed(w) ELSE ReportSkipped(w)
  /\ UNCHANGED <<now, errors, faults, runs>>

\* _claim_and_run
Claim(w) ==
  /\ pc[w] = "claim"
  /\ CompareAndSet(w)
  /\ \/ /\ Wins(w) /\ Goto(w, "enter") /\ ReportNothing
        /\ UNCHANGED <<catchup, due, seen, wake>>
     \/ ~Wins(w) /\ Sleep(w) /\ ReportSkipped(w)
  /\ UNCHANGED <<now, errors, faults, runs>>

\* _run: `sync` admits the body, or raises WouldBlockError.  A fire that was
\* claimed is then lost; without a backend it is a skip.
Enter(w) ==
  /\ pc[w] = "enter"
  /\ \/ /\ Goto(w, "body")
        /\ runs' = [runs EXCEPT ![w][due[w]] = @ + 1]
        /\ ReportNothing /\ UNCHANGED <<catchup, due, seen, wake>>
     \/ /\ Sleep(w)
        /\ IF Durable THEN ReportMissed(w) ELSE ReportSkipped(w)
        /\ UNCHANGED runs
  /\ UNCHANGED <<now, last, errors, faults>>

BodyEnds(w) ==
  /\ pc[w] = "body"
  /\ Sleep(w)
  /\ UNCHANGED <<now, last, errors, faults, history>>

-----------------------------------------------------------------------------
\* Faults.

Fault == faults < MaxFaults /\ faults' = faults + 1

\* A claim whose answer is lost may have been served.
PerhapsClaimed(w) ==
  \/ UNCHANGED last
  \/ pc[w] \in {"baseline", "drop", "claim"} /\ CompareAndSet(w)

\* A backend call raises: COORDINATION_ERROR, and on to the next fire.
CallFails(w) ==
  /\ pc[w] \in {"read", "baseline", "drop", "claim"}
  /\ Fault
  /\ PerhapsClaimed(w)
  /\ Sleep(w)
  /\ errors' = errors \cup {w}
  /\ UNCHANGED <<now, history>>

\* The task is cancelled or its process dies.
Crash(w) ==
  /\ pc[w] # "down"
  /\ Fault
  /\ PerhapsClaimed(w)
  /\ Goto(w, "down")
  /\ UNCHANGED <<now, catchup, due, seen, wake, errors, history>>

\* Graceful stop: noticed between two ticks.
Stop(w) ==
  /\ pc[w] = "sleep"
  /\ Fault
  /\ Goto(w, "down")
  /\ UNCHANGED <<now, last, catchup, due, seen, wake, errors, history>>

Tick ==
  /\ now < MaxTime
  /\ now' = now + 1
  /\ UNCHANGED <<last, loop, faults, history>>

Step(w) ==
  \/ Wake(w) \/ Read(w)
  \/ ClaimBaseline(w) \/ DropLateFire(w) \/ Claim(w)
  \/ Enter(w) \/ BodyEnds(w)

Next ==
  \/ \E w \in Workers : Start(w) \/ Step(w) \/ CallFails(w) \/ Crash(w) \/ Stop(w)
  \/ Tick

Spec == Init /\ [][Next]_vars

\* Workers are started again and the event loop runs what is ready.
Fairness == \A w \in Workers : WF_vars(Start(w)) /\ WF_vars(Step(w))

FairSpec == Spec /\ Fairness

-----------------------------------------------------------------------------

\* f was run or reported missed.
Settled(f) == missed[f] > 0 \/ \E w \in Workers : runs[w][f] > 0

\* A fire is run or reported missed at most once, by at most one worker,
\* whatever crashes, stalls and lost answers there are ("a fire runs at most
\* once across every worker").
AtMostOneOutcome ==
  Durable => \A f \in Fires, v, w \in Workers :
    /\ runs[w][f] + missed[f] <= 1
    /\ v # w => runs[v][f] = 0 \/ runs[w][f] = 0

\* Never a backlog: a claim that is won is for a fire later than all that were
\* run or dropped before.
NoBacklog ==
  [][\A w \in Workers : pc[w] = "claim" /\ pc'[w] = "enter" =>
       \A f \in Fires : f >= due[w] => ~Settled(f)]_vars

InHand(f) == \E w \in Workers : pc[w] \in {"enter", "body"} /\ due[w] = f

\* Until a claim is lost to a fault, a worker stands down only for a fire that
\* some worker has in hand, ran or dropped, or that was the baseline of the
\* schedule, or that a later such fire has superseded.
SkippedIsCovered ==
  Durable /\ faults = 0 => \A f \in skipped \ {0} :
    \E g \in Fires : g >= f /\ (Settled(g) \/ InHand(g) \/ g \in silent)

\* Without a backend every worker runs a fire once, not twice, restarts
\* included.
LocalRunsOnce == \A w \in Workers, f \in Fires : runs[w][f] <= 1

\* A fire has one outcome, of one worker; a worker stands down only for a fire
\* that is covered; and without a backend every worker runs a fire once.
FiresHaveOneOutcome == AtMostOneOutcome /\ SkippedIsCovered /\ LocalRunsOnce

\* A fire missed while every worker was down is claimed, itself or by a later
\* one, once a worker is back and the backend answers it.
MissedFiresReturn ==
  \A f \in Fires :
    (Durable /\ last < f /\ f <= now /\ \A w \in Workers : pc[w] = "down")
      ~> (last >= f \/ errors # {})

\* Fires missed while all workers were down are replayed, once.
MissedFiresReplay == MissedFiresReturn /\ NoBacklog

\* FireOutcome.SKIPPED: "another worker handled the fire, so this one stood
\* down. The peer either ran it or recorded it as missed."
SkippedMeansHandled ==
  Durable => \A f \in skipped \ {0} : Settled(f) \/ InHand(f)

=============================================================================
