------------------------------- MODULE Tasks -------------------------------
(***************************************************************************)
(* grelmicro/task: the group of background tasks of an app, its start and  *)
(* its drain, and the loop of an interval task with the locks around its   *)
(* body.  A cancellation is delivered at the next await of the task; what  *)
(* a lock raises on its way out replaces what was on the way through it.   *)
(***************************************************************************)
EXTENDS Integers, Sequences

CONSTANTS Jobs,      \* the functions and tasks to be added
          Kind,      \* per job: every, cron, or a task of a class of its own
          Options,   \* per job: leader and sync given or not, lease of the lock (0: none), seconds
          Graceful   \* set of Booleans: shutdown_timeout > 0

TasksAssumption ==
  /\ Kind \in [Jobs -> {"every", "cron", "task"}]
  /\ Options \in [Jobs -> [leader : BOOLEAN, sync : BOOLEAN, lock : Nat, seconds : Nat]]
  /\ Graceful \subseteq BOOLEAN

VARIABLES graceful, group,
          tasks,     \* tasks added to the group itself
          routed,    \* tasks added to a router
          included,  \* the router is included in the group
          started,   \* TaskRouter._started
          next,      \* the task that start creates next
          stop,      \* the event
          job,       \* per task: where it is
          refused    \* history: entering the group again was refused

registry == <<tasks, routed, included>>
vars == <<graceful, group, tasks, routed, included, started, next, stop, job, refused>>

\* TaskRouter.tasks
Order == IF included THEN tasks \o routed ELSE tasks
AddedJobs == {(tasks \o routed)[n] : n \in 1..Len(tasks \o routed)}

\* IntervalTask.__init__: leader guard, task lock and resource lock, from the outermost.
\* A leader implies a task lock.
_resolve_task_lock(o) == IF o.lock = 0 THEN 5 * o.seconds ELSE o.lock
Distributed(o) == o.lock > 0 \/ o.leader
IntervalTask(o) == o.seconds > 0 /\ (Distributed(o) => _resolve_task_lock(o) >= o.seconds)
_build_sync_list(o) ==
  (IF o.leader THEN <<"guard">> ELSE <<>>) \o
  (IF Distributed(o) THEN <<"task_lock">> ELSE <<>>) \o
  (IF o.sync THEN <<"sync">> ELSE <<>>)
Primitives(j) == _build_sync_list(Options[j])

NoJob == [pc |-> "none", held |-> 0, error |-> "none", body |-> FALSE, reports |-> 0,
          cancelling |-> FALSE, pending |-> FALSE]

TypeOK ==
  /\ graceful \in Graceful
  /\ group \in {"closed", "starting", "open", "draining", "leaving", "abandoned"}
  /\ tasks \in Seq(Jobs) /\ routed \in Seq(Jobs)
  /\ next \in 1..(Len(Order) + 1) /\ {included, started, stop, refused} \subseteq BOOLEAN
  /\ \A j \in Jobs :
       /\ job[j].pc \in {"none", "created", "loop", "acquire", "body", "unwind", "sleep", "stopped"}
       /\ job[j].held \in 0..Len(Primitives(j)) /\ job[j].reports \in 0..2
       /\ job[j].error \in {"none", "would_block", "not_owned", "error", "cancelled"}
       /\ job[j].pending => job[j].cancelling

Init ==
  /\ graceful \in Graceful /\ group = "closed"
  /\ tasks = <<>> /\ routed = <<>> /\ included = FALSE /\ started = FALSE
  /\ next = 1 /\ stop = FALSE /\ job = [j \in Jobs |-> NoJob] /\ refused = FALSE

-----------------------------------------------------------------------------
\* TaskRouter: TaskAddOperationError once the list is marked as started, and a router that
\* is included is marked with the group.

add_task(j, router) ==
  /\ j \notin AddedJobs
  /\ \/ ~ router /\ ~ started /\ tasks' = Append(tasks, j) /\ UNCHANGED routed
     \/ router /\ ~ (started /\ included) /\ routed' = Append(routed, j) /\ UNCHANGED tasks
  /\ UNCHANGED <<graceful, group, included, started, next, stop, job, refused>>
every(j, router) == Kind[j] = "every" /\ IntervalTask(Options[j]) /\ add_task(j, router)
cron(j, router) == Kind[j] = "cron" /\ add_task(j, router)

include_router ==
  /\ ~ started /\ ~ included /\ included' = TRUE
  /\ UNCHANGED <<graceful, group, tasks, routed, started, next, stop, job, refused>>

-----------------------------------------------------------------------------
\* Tasks

\* start: _started is never taken back, so a group starts once.
__aenter__ ==
  /\ group = "closed"
  /\ IF started THEN refused' = TRUE /\ UNCHANGED <<group, started, stop>>
     ELSE /\ group' = "starting" /\ started' = TRUE /\ stop' = FALSE
          /\ UNCHANGED refused
  /\ UNCHANGED <<graceful, registry, next, job>>

\* One by one, each after the one before has signalled that it is ready.
create_task ==
  /\ group = "starting" /\ next <= Len(Order)
  /\ \A j \in Jobs : job[j].pc # "created"
  /\ job' = [job EXCEPT ![Order[next]].pc = "created"]
  /\ next' = next + 1
  /\ UNCHANGED <<graceful, registry, group, started, stop, refused>>

start ==
  /\ group = "starting" /\ next > Len(Order) /\ \A j \in Jobs : job[j].pc # "created"
  /\ group' = "open"
  /\ UNCHANGED <<graceful, registry, started, next, stop, job, refused>>

ready(j) ==
  /\ job[j].pc = "created"
  /\ job' = [job EXCEPT ![j].pc = "loop"]
  /\ UNCHANGED <<graceful, registry, group, started, next, stop, refused>>

\* start raises, and leaves the tasks that it made to themselves.
exits_early(j) ==
  /\ Kind[j] = "task" /\ job[j].pc = "created" /\ group = "starting"
  /\ job' = [job EXCEPT ![j].pc = "stopped"]
  /\ group' = "abandoned"
  /\ UNCHANGED <<graceful, registry, started, next, stop, refused>>

Alive == {j \in Jobs : job[j].pc \notin {"none", "stopped"}}
Cancelled(js) ==
  [j \in Jobs |-> IF j \in js THEN [job[j] EXCEPT !.cancelling = TRUE, !.pending = TRUE] ELSE job[j]]

\* _drain: the signal, and with no time to wait the cancellation of all,
__aexit__ ==
  /\ group = "open" /\ stop' = TRUE
  /\ IF graceful THEN group' = "draining" /\ UNCHANGED job
     ELSE group' = "leaving" /\ job' = Cancelled(Alive)
  /\ UNCHANGED <<graceful, registry, started, next, refused>>

\* otherwise of those that are left when the wait ends or its time is over.
_drain ==
  /\ group = "draining"
  /\ group' = "leaving" /\ job' = Cancelled(Alive)
  /\ UNCHANGED <<graceful, registry, started, next, stop, refused>>

\* The wait itself is cancelled: the TaskGroup is never left.
drain_cancelled ==
  /\ group = "draining"
  /\ group' = "abandoned"
  /\ UNCHANGED <<graceful, registry, started, next, stop, job, refused>>

\* The TaskGroup waits for its tasks.
exited ==
  /\ group = "leaving" /\ Alive = {}
  /\ group' = "closed"
  /\ UNCHANGED <<graceful, registry, started, next, stop, job, refused>>

-----------------------------------------------------------------------------
\* IntervalTask

Others == <<graceful, registry, group, started, next, stop, refused>>
Runs(j, pc) == job[j].pc = pc /\ ~ job[j].pending

\* The loop of a task of another class (CronTask is a module of its own).
other_loop(j) ==
  /\ Runs(j, "loop") /\ Kind[j] # "every"
  /\ job' = [job EXCEPT ![j].pc = "sleep"]
  /\ UNCHANGED Others

iterate(j) ==
  /\ Runs(j, "loop") /\ Kind[j] = "every"
  /\ job' = [job EXCEPT ![j] = [@ EXCEPT !.pc = "acquire", !.held = 0, !.body = FALSE,
                                         !.error = "none", !.reports = 0]]
  /\ UNCHANGED Others

\* _run_with_sync: the next lock, if there is one, or the body.
acquire(j) ==
  /\ Runs(j, "acquire")
  /\ \/ /\ job[j].held < Len(Primitives(j))
        /\ \/ job' = [job EXCEPT ![j].held = @ + 1]
           \/ \E e \in {"would_block", "error"} :
                job' = [job EXCEPT ![j].pc = "unwind", ![j].error = e]
     \/ /\ job[j].held = Len(Primitives(j))
        /\ job' = [job EXCEPT ![j].pc = "body", ![j].body = TRUE]
  /\ UNCHANGED Others

\* The body's own exceptions end here; its outcome is reported either way.
body_ends(j) ==
  /\ Runs(j, "body")
  /\ job' = [job EXCEPT ![j].pc = "unwind", ![j].reports = @ + 1]
  /\ UNCHANGED Others

\* __aexit__ of the innermost lock.  A task lock whose lease ran out raises
\* LockNotOwnedError.
release(j) ==
  /\ Runs(j, "unwind") /\ job[j].held > 0
  /\ \E e \in {job[j].error, "error"} \cup
              (IF Primitives(j)[job[j].held] # "guard" THEN {"not_owned"} ELSE {}) :
       job' = [job EXCEPT ![j].held = @ - 1, ![j].error = e]
  /\ UNCHANGED Others

\* The except clauses of the loop and what they report, and then the look at cancelling().
ReportedAlways(j) ==
  IF job[j].error \in {"would_block", "error"} THEN job[j].reports + 1 ELSE job[j].reports
Reported(j) ==
  CASE job[j].error = "would_block" -> job[j].reports + 1
    [] job[j].error = "error" /\ ~ job[j].body -> job[j].reports + 1
    [] OTHER -> job[j].reports
GoesOnShadowed(j) == IF job[j].error = "cancelled" THEN "stopped" ELSE "sleep"
GoesOn(j) == IF job[j].error = "cancelled" \/ job[j].cancelling THEN "stopped" ELSE "sleep"
__call__(j) ==
  /\ Runs(j, "unwind") /\ job[j].held = 0
  /\ job' = [job EXCEPT ![j].pc = GoesOn(j), ![j].reports = Reported(j)]
  /\ UNCHANGED Others

sleep_or_stop(j) ==
  /\ Runs(j, "sleep")
  /\ job' = [job EXCEPT ![j].pc = IF stop THEN "stopped" ELSE "loop"]
  /\ UNCHANGED Others

\* CancelledError at an await.  A body may catch it and return; one that does not reports
\* an error on its way out.
deliver(j) ==
  /\ job[j].pending
  /\ \/ /\ job[j].pc \in {"acquire", "body", "unwind"}
        /\ \E e \in {"cancelled"} \cup (IF job[j].pc = "body" THEN {"none"} ELSE {}) :
             job' = [job EXCEPT ![j].pending = FALSE, ![j].pc = "unwind", ![j].error = e,
                                ![j].reports = @ + (IF job[j].pc = "body" THEN 1 ELSE 0)]
     \/ /\ job[j].pc \in {"created", "loop", "sleep"}
        /\ job' = [job EXCEPT ![j].pending = FALSE, ![j].pc = "stopped"]
  /\ UNCHANGED Others

Steps(j) == other_loop(j) \/ iterate(j) \/ acquire(j) \/ body_ends(j) \/ release(j) \/ __call__(j) \/ sleep_or_stop(j)

Next ==
  \/ __aenter__ \/ create_task \/ start \/ __aexit__ \/ _drain \/ drain_cancelled \/ exited
  \/ include_router
  \/ \E j \in Jobs, router \in BOOLEAN :
       every(j, router) \/ cron(j, router) \/ (Kind[j] = "task" /\ add_task(j, router))
  \/ \E j \in Jobs : ready(j) \/ exits_early(j) \/ Steps(j) \/ deliver(j)

\* A lock may be waited for and a body run for ever; nothing else of a task blocks, and
\* the event loop runs what can run.
Fairness ==
  /\ WF_vars(_drain) /\ WF_vars(exited)
  /\ \A j \in Jobs : WF_vars(deliver(j)) /\ WF_vars(release(j)) /\ WF_vars(__call__(j))

Spec == Init /\ [][Next]_vars /\ Fairness

-----------------------------------------------------------------------------
\* Properties.

\* Closing the group always finishes: however long a body runs, whatever a lock raises in
\* place of the cancellation on its way through, no task goes on to another round.
DrainEnds == group \in {"draining", "leaving"} ~> group \in {"closed", "abandoned"}

\* Every round of an interval task ends with one outcome reported and never with two,
\* whether the locks were taken, refused, failed or lost; the exception is a lock that
\* was lost before the body began.
OneOutcomePerFire ==
  \A j \in Jobs :
    /\ job[j].reports <= 1
    /\ Kind[j] = "every" /\ job[j].pc = "sleep" /\ ~ (job[j].error = "not_owned" /\ ~ job[j].body) => job[j].reports = 1

\* task/_interval.py: "The lock expired on release, so the body already ran and already
\* reported its own outcome."
LostLockHasRun ==
  \A j \in Jobs : job[j].pc = "sleep" /\ job[j].error = "not_owned" => job[j].body

\* tests/test_grelmicro_app.py: "A `Grelmicro` instance can be opened again after closing
\* cleanly."
Reopens == ~ refused
=============================================================================
