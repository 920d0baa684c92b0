------------------------------ MODULE MCTasks -------------------------------
(***************************************************************************)
(* Background work: the loop of a cron task on two workers, the group of   *)
(* an app's tasks with the loop of an interval task, and the poll that     *)
(* brings a new configuration to running components, each on its own       *)
(* state. A behaviour is one of the component chosen at the start; the     *)
(* others stay as they were made, so their properties hold trivially in    *)
(* it.                                                                     *)
(***************************************************************************)
EXTENDS CronTask, Sequences, TLC

CONSTANTS Modes, None,
          Jobs, Kind, Options, Graceful,                                        \* Tasks
          Instances, Fields, Tracked, Immutable, Values, Contents, Bad, Unreadable,
          MaxSwaps, MaxCalls, MaxOpens,                                         \* Config
          j1, j2, j3, i1, f1, f2, v1, v2

VARIABLES
  mode,
  g_graceful, g_group, g_tasks, g_routed, g_included, g_started, g_next, g_stop, g_job,
  g_refused,
  r_conf, r_disk, r_last, r_data, r_reading, r_left, r_pc, r_swaps, r_reconfigures, r_opens

\* An interval task behind a leader guard, a task lock and a lock, a task of another class
\* and a cron task.
MCKind == j1 :> "every" @@ j2 :> "task" @@ j3 :> "cron"
Option(locked) == [leader |-> locked, sync |-> locked, lock |-> 0, seconds |-> 1]
MCOptions == j1 :> Option(TRUE) @@ j2 :> Option(FALSE) @@ j3 :> Option(FALSE)

\* What is mounted: whole contents, one with a value that does not validate and one that
\* names a single field.
Content(first, second) == (<<i1, f1>> :> first) @@ (<<i1, f2>> :> second)
MCContents == {Content(v1, v1), Content(v2, v2), Content(v2, Bad), Content(None, v2)}

Group == INSTANCE Tasks WITH
  graceful <- g_graceful, group <- g_group, tasks <- g_tasks, routed <- g_routed,
  included <- g_included, started <- g_started, next <- g_next, stop <- g_stop, job <- g_job,
  refused <- g_refused

Reloaded == INSTANCE Config WITH
  conf <- r_conf, disk <- r_disk, last <- r_last, data <- r_data, reading <- r_reading,
  left <- r_left, pc <- r_pc, swaps <- r_swaps, reconfigures <- r_reconfigures, opens <- r_opens

ASSUME TasksAssumptions ==
  /\ CronTaskAssumption
  /\ Group!TasksAssumption
  /\ Reloaded!ConfigAssumption

group ==
  <<g_graceful, g_group, g_tasks, g_routed, g_included, g_started, g_next, g_stop, g_job,
    g_refused>>
reloaded ==
  <<r_conf, r_disk, r_last, r_data, r_reading, r_left, r_pc, r_swaps, r_reconfigures, r_opens>>

allVars == <<mode, vars, group, reloaded>>

MCInit ==
  /\ mode \in Modes
  /\ Init /\ (mode # "cron task" => last = 0)
  /\ Group!Init /\ (mode # "tasks" => g_graceful)
  /\ Reloaded!Init /\ (mode # "config" => r_conf[i1][f1] = v1)

ScheduledNext ==
  /\ mode = "cron task" /\ Next
  /\ UNCHANGED <<mode, group, reloaded>>

GroupNext ==
  /\ mode = "tasks" /\ Group!Next
  /\ UNCHANGED <<mode, vars, reloaded>>

ReloadedNext ==
  /\ mode = "config" /\ Reloaded!Next
  /\ UNCHANGED <<mode, vars, group>>

MCNext == ScheduledNext \/ GroupNext \/ ReloadedNext

\* What the modules assume of the event loop, of the component that runs.
ScheduledFairness ==
  \A w \in Workers :
    /\ WF_vars(mode = "cron task" /\ Start(w))
    /\ WF_vars(mode = "cron task" /\ Step(w))

MCSpec ==
  MCInit /\ [][MCNext]_allVars /\ ScheduledFairness /\ Group!Fairness /\ Reloaded!Fairness

-----------------------------------------------------------------------------

\* The variables of every component keep their types.
TaskTypes == TypeOK /\ Group!TypeOK /\ Reloaded!TypeOK

\* task/_cron.py and task/_interval.py: a fire has one outcome, of one worker; a worker
\* stands down only for a fire that is covered; without a backend every worker runs a fire
\* once; and a round of an interval task reports once.
OneOutcomeEach == FiresHaveOneOutcome /\ Group!OneOutcomePerFire

\* task/_tasks.py and task/_interval.py: closing the group ends.
DrainEnds == Group!DrainEnds

\* config/_external.py and config/file.py: the polls bring what is mounted.
ReloadsConverge == Reloaded!ReloadsConverge

=============================================================================
