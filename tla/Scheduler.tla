----------------------------- MODULE Scheduler -----------------------------
(***************************************************************************)
(* The task scheduler (engines/orchestration/core/scheduler.py): the heap  *)
(* of jobs, the loop that starts the due ones, the _execute_task           *)
(* coroutines with their saves to the history, retries, rescheduling,      *)
(* cancelling, and reloading after a restart.                              *)
(*                                                                         *)
(* Time is abstract: a job in the heap is waiting or due, and may become   *)
(* due at any moment.  A job object is <<j, g>>: job id j, and g counts    *)
(* the reloads that have made an object for it.  A coroutine suspends in   *)
(* the handler and in every save, which adds its row before it suspends.   *)
(***************************************************************************)
EXTENDS Integers, FiniteSets

CONSTANTS Jobs,         \* task_id values
          Recurring,    \* the jobs of type interval or cron; the others run once
          MaxRetries,   \* max_retries
          MaxTasks,     \* max_concurrent_tasks
          SavesFail,    \* whether the history repository may raise
          MaxReloads    \* bound on the number of reloads

ASSUME SchedulerAssumption ==
  /\ Recurring \subseteq Jobs
  /\ MaxRetries \in Nat \ {0}
  /\ MaxTasks \in Nat \ {0}
  /\ SavesFail \in BOOLEAN
  /\ MaxReloads \in Nat

Objects == Jobs \X (0..MaxReloads)
EnoughDone == MaxRetries + 1
Phase == {"none", "created", "saving_running", "handler", "saving_completed", "saving_failed"}

VARIABLES state,     \* ScheduledTask.state; "absent" before it exists
          failures,  \* ScheduledTask.failure_count
          current,   \* tasks: the generation of the object under every id
          waiting,   \* objects in task_heap whose time has not come
          due,       \* objects in task_heap whose time has come
          phase,     \* the _execute_task coroutine of every object
          running,   \* running_tasks
          on,        \* is_running
          paused,    \* is_paused
          row,       \* the state in the last history row of every job
          done,      \* history: how often an object's handler returned, up to EnoughDone
          dropped    \* history: jobs cancelled while in the heap, with no coroutine

vars == <<state, failures, current, waiting, due, phase, running, on, paused, row,
          done, dropped>>

TypeOK ==
  /\ state \in [Objects -> {"absent", "pending", "running", "completed", "failed", "cancelled"}]
  /\ failures \in [Objects -> 0..MaxRetries]
  /\ current \in [Jobs -> 0..MaxReloads]
  /\ waiting \subseteq Objects /\ due \subseteq Objects
  /\ phase \in [Objects -> Phase]
  /\ running \subseteq Jobs
  /\ on \in BOOLEAN /\ paused \in BOOLEAN
  /\ row \in [Jobs -> {"none", "running", "completed", "failed"}]
  /\ done \in [Objects -> 0..EnoughDone]
  /\ dropped \subseteq Jobs

Init ==
  /\ state = [o \in Objects |-> "absent"]
  /\ failures = [o \in Objects |-> 0]
  /\ current = [j \in Jobs |-> 0]
  /\ waiting = {} /\ due = {}
  /\ phase = [o \in Objects |-> "none"]
  /\ running = {}
  /\ on = FALSE /\ paused = FALSE
  /\ row = [j \in Jobs |-> "none"]
  /\ done = [o \in Objects |-> 0]
  /\ dropped = {}

-----------------------------------------------------------------------------
(* schedule_once, schedule_interval, schedule_cron, with a fresh task_id. *)
Schedule(j) ==
  LET o == <<j, 0>>
  IN  /\ state[o] = "absent"
      /\ state' = [state EXCEPT ![o] = "pending"]
      /\ waiting' = waiting \cup {o}
      /\ UNCHANGED <<failures, current, due, phase, running, on, paused, row, done, dropped>>

(* The clock reaches next_execution. *)
BecomesDue(o) ==
  /\ o \in waiting
  /\ waiting' = waiting \ {o}
  /\ due' = due \cup {o}
  /\ UNCHANGED <<state, failures, current, phase, running, on, paused, row, done, dropped>>

CancelTask(j) ==
  LET o == <<j, current[j]>>
  IN  /\ state[o] # "absent"
      /\ state' = [state EXCEPT ![o] = "cancelled"]
      /\ dropped' = IF o \in waiting \cup due THEN dropped \cup {j} ELSE dropped
      /\ UNCHANGED <<failures, current, waiting, due, phase, running, on, paused, row, done>>

Start ==
  /\ ~on
  /\ on' = TRUE /\ paused' = FALSE
  /\ UNCHANGED <<state, failures, current, waiting, due, phase, running, row, done, dropped>>

(* stop() cancels the loop; the coroutines it started live on. *)
Stop ==
  /\ on
  /\ on' = FALSE
  /\ UNCHANGED <<state, failures, current, waiting, due, phase, running, paused, row, done, dropped>>

Pause ==
  /\ paused' = TRUE
  /\ UNCHANGED <<state, failures, current, waiting, due, phase, running, on, row, done, dropped>>

Resume ==
  /\ paused' = FALSE
  /\ UNCHANGED <<state, failures, current, waiting, due, phase, running, on, row, done, dropped>>

(* Mutant of ProcessDueJobs: cancelled jobs are not skipped. *)
ProcessDueJobs_Cancelled ==
  /\ on /\ ~paused
  /\ due # {}
  /\ Cardinality(running) < MaxTasks
  /\ phase' = [o \in Objects |-> IF o \in due THEN "created" ELSE phase[o]]
  /\ due' = {}
  /\ UNCHANGED <<state, failures, current, waiting, running, on, paused, row, done, dropped>>

(* One pass of process_due_jobs.  running_tasks grows only when a created
   coroutine starts, so the limit test gives the same answer throughout the
   pass, and the pass takes every due job or none. *)
ProcessDueJobs ==
  /\ on /\ ~paused
  /\ due # {}
  /\ Cardinality(running) < MaxTasks
  /\ phase' = [o \in Objects |-> IF o \in due /\ state[o] # "cancelled" THEN "created" ELSE phase[o]]
  /\ due' = {}
  /\ UNCHANGED <<state, failures, current, waiting, running, on, paused, row, done, dropped>>

-----------------------------------------------------------------------------
(* The _execute_task coroutine of o, from one suspension to the next. *)
BeginExecution(o) ==
  /\ phase[o] = "created"
  /\ state' = [state EXCEPT ![o] = "running"]
  /\ running' = running \cup {o[1]}
  /\ row' = [row EXCEPT ![o[1]] = "running"]
  /\ phase' = [phase EXCEPT ![o] = "saving_running"]
  /\ UNCHANGED <<failures, current, waiting, due, on, paused, done, dropped>>

CallHandler(o) ==
  /\ phase[o] = "saving_running"
  /\ phase' = [phase EXCEPT ![o] = "handler"]
  /\ UNCHANGED <<state, failures, current, waiting, due, running, on, paused, row, done, dropped>>

(* The first save is outside the try block: its exception ends the coroutine
   without the finally clause. *)
RunningSaveFails(o) ==
  /\ SavesFail
  /\ phase[o] = "saving_running"
  /\ phase' = [phase EXCEPT ![o] = "none"]
  /\ UNCHANGED <<state, failures, current, waiting, due, running, on, paused, row, done, dropped>>

(* Mutant of HandlerReturns: a recurring job is rescheduled before the save
   that follows its handler. *)
HandlerReturns_Early(o) ==
  /\ phase[o] = "handler"
  /\ state' = [state EXCEPT ![o] = "completed"]
  /\ done' = [done EXCEPT ![o] = IF @ = EnoughDone THEN @ ELSE @ + 1]
  /\ row' = [row EXCEPT ![o[1]] = "completed"]
  /\ phase' = [phase EXCEPT ![o] = "saving_completed"]
  /\ waiting' = IF o[1] \in Recurring THEN waiting \cup {o} ELSE waiting
  /\ UNCHANGED <<failures, current, due, running, on, paused, dropped>>

HandlerReturns(o) ==
  /\ phase[o] = "handler"
  /\ state' = [state EXCEPT ![o] = "completed"]
  /\ done' = [done EXCEPT ![o] = IF @ = EnoughDone THEN @ ELSE @ + 1]
  /\ row' = [row EXCEPT ![o[1]] = "completed"]
  /\ phase' = [phase EXCEPT ![o] = "saving_completed"]
  /\ UNCHANGED <<failures, current, waiting, due, running, on, paused, dropped>>

(* Mutant of ExecutionFails: only exceptions of the handler are counted. *)
ExecutionFails_HandlerOnly(o) ==
  /\ (phase[o] = "handler" /\ o[2] = 0) \/ (SavesFail /\ phase[o] = "saving_completed")
  /\ failures' = [failures EXCEPT ![o] = IF phase[o] = "handler" THEN @ + 1 ELSE @]
  /\ state' = [state EXCEPT ![o] = "failed"]
  /\ row' = [row EXCEPT ![o[1]] = "failed"]
  /\ phase' = [phase EXCEPT ![o] = "saving_failed"]
  /\ UNCHANGED <<current, waiting, due, running, on, paused, done, dropped>>

(* The except clause, for an exception of the handler or of the save.  An object
   made by a reload has a handler that does nothing. *)
ExecutionFails(o) ==
  /\ (phase[o] = "handler" /\ o[2] = 0) \/ (SavesFail /\ phase[o] = "saving_completed")
  /\ failures' = [failures EXCEPT ![o] = @ + 1]
  /\ state' = [state EXCEPT ![o] = "failed"]
  /\ row' = [row EXCEPT ![o[1]] = "failed"]
  /\ phase' = [phase EXCEPT ![o] = "saving_failed"]
  /\ UNCHANGED <<current, waiting, due, running, on, paused, done, dropped>>

(* Mutants of Finish: the slot is not given back when the job goes back into
   the heap; the job is always put back. *)
Finish_KeepsSlot(o, again) ==
  /\ running' = IF again THEN running ELSE running \ {o[1]}
  /\ phase' = [phase EXCEPT ![o] = "none"]
  /\ IF again
     THEN /\ state' = [state EXCEPT ![o] = "pending"]
          /\ waiting' = waiting \cup {o}
     ELSE UNCHANGED <<state, waiting>>
  /\ UNCHANGED <<failures, current, due, on, paused, row, done, dropped>>
Finish_Always(o, again) ==
  /\ running' = running \ {o[1]}
  /\ phase' = [phase EXCEPT ![o] = "none"]
  /\ state' = [state EXCEPT ![o] = "pending"]
  /\ waiting' = waiting \cup {o}
  /\ UNCHANGED <<failures, current, due, on, paused, row, done, dropped>>

(* The end of the coroutine, with the finally clause; again says whether the
   job goes back into the heap (_reschedule_task, _schedule_retry). *)
Finish(o, again) ==
  /\ running' = running \ {o[1]}
  /\ phase' = [phase EXCEPT ![o] = "none"]
  /\ IF again
     THEN /\ state' = [state EXCEPT ![o] = "pending"]
          /\ waiting' = waiting \cup {o}
     ELSE UNCHANGED <<state, waiting>>
  /\ UNCHANGED <<failures, current, due, on, paused, row, done, dropped>>

FinishCompleted(o) == phase[o] = "saving_completed" /\ Finish(o, o[1] \in Recurring)

(* Mutant of FinishFailed: the comparison with max_retries is off by one. *)
FinishFailed_Early(o) == phase[o] = "saving_failed" /\ Finish(o, failures[o] + 1 < MaxRetries)

FinishFailed(o) == phase[o] = "saving_failed" /\ Finish(o, failures[o] < MaxRetries)
FailedSaveFails(o) == SavesFail /\ phase[o] = "saving_failed" /\ Finish(o, FALSE)

(* The handler raises CancelledError, which the except clause does not catch:
   neither a failure nor a retry, and the job is left in state running. *)
HandlerCancelled(o) == phase[o] = "handler" /\ o[2] = 0 /\ Finish(o, FALSE)

Execution(o) ==
  \/ BeginExecution(o) \/ CallHandler(o) \/ RunningSaveFails(o)
  \/ HandlerReturns(o) \/ ExecutionFails(o) \/ HandlerCancelled(o)
  \/ FinishCompleted(o) \/ FinishFailed(o) \/ FailedSaveFails(o)

(* reload_tasks_from_history, which the engine calls on every start.  Of each
   job it takes the oldest row, which is that of its first execution: state
   running, no failures, next_execution in the past. *)
Reloaded == {j \in Jobs : row[j] # "none"}
Fresh(j) == <<j, current[j] + 1>>

Reload ==
  /\ Reloaded # {}
  /\ \A j \in Reloaded : current[j] < MaxReloads
  /\ LET new == {Fresh(j) : j \in Reloaded}
     IN  /\ state' = [o \in Objects |-> IF o \in new THEN "running" ELSE state[o]]
         /\ due' = due \cup new
  /\ current' = [j \in Jobs |-> IF j \in Reloaded THEN current[j] + 1 ELSE current[j]]
  /\ UNCHANGED <<failures, waiting, phase, running, on, paused, row, done, dropped>>

Next ==
  \/ \E j \in Jobs : Schedule(j) \/ CancelTask(j)
  \/ \E o \in Objects : BecomesDue(o) \/ Execution(o)
  \/ Start \/ Stop \/ Pause \/ Resume \/ ProcessDueJobs \/ Reload

Spec == Init /\ [][Next]_vars

(* The loop runs every second while the scheduler is on, time passes, and
   handlers and saves end. *)
FairSpec ==
  /\ Spec
  /\ WF_vars(ProcessDueJobs)
  /\ \A o \in Objects : WF_vars(BecomesDue(o)) /\ WF_vars(Execution(o))

-----------------------------------------------------------------------------
(* Executions of one job object never overlap: while its coroutine lives the
   object is not in the heap, so no pass can start it again. *)
OneExecution == \A o \in waiting \cup due : phase[o] = "none"

(* running_tasks counts exactly the started executions: every execution gives
   its slot back, on every path.  (Saves that do not raise, no reload.) *)
SlotsMatch ==
  running = {j \in Jobs : phase[<<j, 0>>] \notin {"none", "created"}}

(* "Execute once at specific time" (ScheduleType.ONE_TIME): a one-time job's
   handler succeeds at most once, however often its earlier attempts failed. *)
RunsOnce == \A j \in Jobs \ Recurring : done[<<j, 0>>] <= 1

(* When the save that follows a success raises, the job runs again.  Still each
   success of a one-time job but one is paid for with a retry, so there are never
   more than max_retries, whatever else fails or is reloaded. *)
SuccessIsPaid ==
  \A o \in (Jobs \ Recurring) \X (0..MaxReloads) :
    done[o] <= failures[o] + 1 /\ done[o] <= MaxRetries

(* A job that is cancelled while it is in the heap is never started. *)
DroppedNeverRuns == \A j \in dropped : phase[<<j, 0>>] = "none"

(* A failed job is left alone only after max_retries failures. *)
RetriedUntilLimit ==
  \A o \in Objects : state[o] = "failed" /\ phase[o] = "none" => failures[o] = MaxRetries

(* A due job is started, or cancelled, unless the scheduler is stopped or
   paused: full slots only delay it. *)
DueJobIsStarted ==
  \A o \in Objects : o \in due ~> o \notin due \/ ~on \/ paused
=============================================================================
