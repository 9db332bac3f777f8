-------------------------- MODULE SchedulerProofs --------------------------
(***************************************************************************)
(* Proofs about Scheduler, for any set of jobs, any limits and any number  *)
(* of reloads: the executions of a job object never overlap and retries    *)
(* stay within max_retries, and so do the successes of a one-time job; and *)
(* where saves do not fail and nothing is reloaded, slots are given back,  *)
(* a one-time job succeeds once, a job cancelled in the heap never runs    *)
(* and retries are used up.                                                *)
(***************************************************************************)
EXTENDS Scheduler, TLAPS

USE SchedulerAssumption

(* An object that does not exist yet has left no trace; objects beyond the
   current generation do not exist. *)
Untouched ==
  \A o \in Objects :
    /\ state[o] = "absent" =>
         phase[o] = "none" /\ failures[o] = 0 /\ o \notin waiting \cup due
    /\ o[2] > current[o[1]] => state[o] = "absent"

(* Who can still fail has a retry left. *)
RetryLeft ==
  \A o \in Objects :
    /\ o \in waiting \cup due \/ phase[o] \notin {"none", "saving_failed"} => failures[o] < MaxRetries

(* An object is in the heap once. *)
OneEntry == waiting \cap due = {}

IInv == TypeOK /\ Untouched /\ RetryLeft /\ OneEntry /\ OneExecution

LEMMA ObjectParts ==
  ASSUME NEW o \in Objects
  PROVE  o[1] \in Jobs /\ o[2] \in 0..MaxReloads /\ o = <<o[1], o[2]>>
BY DEF Objects

LEMMA FirstObject == \A j \in Jobs : <<j, 0>> \in Objects
BY DEF Objects

-----------------------------------------------------------------------------
LEMMA InitIInv == Init => IInv
<1>. SUFFICES ASSUME Init PROVE IInv
  OBVIOUS
<1>0. 0 \in 0..MaxRetries /\ 0 \in 0..MaxReloads /\ 0 \in 0..EnoughDone
  BY DEF EnoughDone
<1>1. TypeOK
  BY <1>0, Zenon DEF Init, TypeOK, Phase
<1>2. Untouched /\ RetryLeft
  BY ObjectParts DEF Init, Untouched, RetryLeft
<1>3. OneEntry /\ OneExecution
  BY DEF Init, OneEntry, OneExecution
<1>. QED  BY <1>1, <1>2, <1>3 DEF IInv

LEMMA ScheduleIInv ==
  ASSUME IInv, NEW j \in Jobs, Schedule(j)
  PROVE  IInv'
<1>. DEFINE o == <<j, 0>>
<1>1. o \in Objects /\ state[o] = "absent"
  BY FirstObject DEF Schedule
<1>2. /\ state' = [state EXCEPT ![o] = "pending"]
      /\ waiting' = waiting \cup {o}
      /\ UNCHANGED <<failures, current, due, phase, running, on, paused, row, done, dropped>>
  BY DEF Schedule
<1>3. ~(o[2] > current[o[1]])
  BY DEF IInv, TypeOK
<1>. HIDE DEF o
<1>4. TypeOK'
  BY <1>1, <1>2 DEF IInv, TypeOK
<1>5. Untouched'
  BY <1>1, <1>2, <1>3 DEF IInv, TypeOK, Untouched
<1>6. RetryLeft' /\ OneEntry' /\ OneExecution'
  BY <1>1, <1>2 DEF IInv, TypeOK, Untouched, RetryLeft, OneEntry, OneExecution
<1>. QED  BY <1>4, <1>5, <1>6 DEF IInv

LEMMA BecomesDueIInv ==
  ASSUME IInv, NEW o \in Objects, BecomesDue(o)
  PROVE  IInv'
BY DEF BecomesDue, IInv, TypeOK, Untouched, RetryLeft, OneEntry, OneExecution

LEMMA CancelTaskIInv ==
  ASSUME IInv, NEW j \in Jobs, CancelTask(j)
  PROVE  IInv'
<1>. DEFINE o == <<j, current[j]>>
<1>1. o \in Objects /\ state[o] # "absent" /\ state' = [state EXCEPT ![o] = "cancelled"]
  BY DEF IInv, TypeOK, CancelTask, Objects
<1>2. /\ dropped' \subseteq Jobs
      /\ UNCHANGED <<failures, current, waiting, due, phase, running, on, paused, row, done>>
  BY DEF CancelTask, IInv, TypeOK
<1>. HIDE DEF o
<1>. QED
  BY <1>1, <1>2 DEF IInv, TypeOK, Untouched, RetryLeft, OneEntry, OneExecution

LEMMA SwitchIInv ==
  ASSUME IInv, Start \/ Stop \/ Pause \/ Resume
  PROVE  IInv'
<1>1. UNCHANGED <<state, failures, current, waiting, due, phase, running, row, done, dropped>>
  BY DEF Start, Stop, Pause, Resume
<1>2. on' \in BOOLEAN /\ paused' \in BOOLEAN
  BY Zenon DEF Start, Stop, Pause, Resume, IInv, TypeOK
<1>. QED
  BY <1>1, <1>2 DEF IInv, TypeOK, Untouched, RetryLeft, OneEntry, OneExecution

LEMMA ProcessDueJobsIInv ==
  ASSUME IInv, ProcessDueJobs
  PROVE  IInv'
<1>1. TypeOK'
  BY DEF ProcessDueJobs, IInv, TypeOK, Phase
<1>2. Untouched'
  BY DEF ProcessDueJobs, IInv, TypeOK, Untouched
<1>3. RetryLeft'
  BY DEF ProcessDueJobs, IInv, TypeOK, RetryLeft
<1>4. OneEntry' /\ OneExecution'
  BY DEF ProcessDueJobs, IInv, TypeOK, OneEntry, OneExecution
<1>. QED  BY <1>1, <1>2, <1>3, <1>4 DEF IInv

(* A step of a coroutine: its object exists and is not in the heap. *)
LEMMA ExecutionIInv ==
  ASSUME IInv, NEW o \in Objects, Execution(o)
  PROVE  IInv'
<1>1. /\ phase[o] # "none" /\ state[o] # "absent" /\ o \notin waiting \cup due
      /\ o[1] \in Jobs
  BY ObjectParts, Zenon DEF IInv, Untouched, OneExecution, Execution, BeginExecution, CallHandler,
     RunningSaveFails, HandlerReturns, ExecutionFails, FinishCompleted, FinishFailed,
     FailedSaveFails, HandlerCancelled
<1>2. CASE BeginExecution(o)
  BY <1>1, <1>2 DEF BeginExecution, IInv, TypeOK, Phase, Untouched, RetryLeft, OneEntry, OneExecution
<1>3. CASE CallHandler(o)
  BY <1>1, <1>3 DEF CallHandler, IInv, TypeOK, Phase, Untouched, RetryLeft, OneEntry, OneExecution
<1>4. CASE RunningSaveFails(o)
  BY <1>1, <1>4 DEF RunningSaveFails, IInv, TypeOK, Phase, Untouched, RetryLeft, OneEntry, OneExecution
<1>5. CASE HandlerReturns(o)
  <2>1. TypeOK'
    BY <1>1, <1>5 DEF HandlerReturns, IInv, TypeOK, Phase, EnoughDone
  <2>2. Untouched' /\ OneEntry' /\ OneExecution'
    BY <1>1, <1>5 DEF HandlerReturns, IInv, TypeOK, Untouched, OneEntry, OneExecution
  <2>3. RetryLeft'
    BY <1>1, <1>5 DEF HandlerReturns, IInv, TypeOK, RetryLeft
  <2>. QED  BY <2>1, <2>2, <2>3 DEF IInv
<1>6. CASE ExecutionFails(o)
  <2>1. failures[o] < MaxRetries
    BY <1>6 DEF ExecutionFails, IInv, RetryLeft
  <2>2. TypeOK'
    BY <1>1, <1>6, <2>1 DEF ExecutionFails, IInv, TypeOK, Phase
  <2>3. Untouched' /\ OneEntry' /\ OneExecution'
    BY <1>1, <1>6 DEF ExecutionFails, IInv, TypeOK, Untouched, OneEntry, OneExecution
  <2>4. RetryLeft'
    BY <1>1, <1>6 DEF ExecutionFails, IInv, TypeOK, RetryLeft
  <2>. QED  BY <2>2, <2>3, <2>4 DEF IInv
<1>7. ASSUME running' = running \ {o[1]},
             phase' = [phase EXCEPT ![o] = "none"],
             \/ /\ failures[o] < MaxRetries
                /\ state' = [state EXCEPT ![o] = "pending"]
                /\ waiting' = waiting \cup {o}
             \/ UNCHANGED <<state, waiting>>,
             UNCHANGED <<failures, current, due, on, paused, row, done, dropped>>
      PROVE  IInv'
  <2>1. TypeOK'
    BY <1>7 DEF IInv, TypeOK, Phase
  <2>2. Untouched' /\ OneEntry' /\ OneExecution'
    BY <1>1, <1>7 DEF IInv, TypeOK, Untouched, OneEntry, OneExecution
  <2>3. RetryLeft'
    BY <1>1, <1>7 DEF IInv, TypeOK, RetryLeft
  <2>. QED  BY <2>1, <2>2, <2>3 DEF IInv
<1>8. CASE FinishCompleted(o)
  <2>1. failures[o] < MaxRetries
    BY <1>8 DEF FinishCompleted, IInv, RetryLeft
  <2>. QED  BY <1>7, <1>8, <2>1 DEF FinishCompleted, Finish
<1>9. CASE FinishFailed(o) \/ FailedSaveFails(o) \/ HandlerCancelled(o)
  BY <1>7, <1>9 DEF FinishFailed, FailedSaveFails, HandlerCancelled, Finish
<1>. QED
  BY <1>2, <1>3, <1>4, <1>5, <1>6, <1>8, <1>9 DEF Execution

(* A reload makes objects of the next generation, which nothing has touched. *)
LEMMA ReloadIInv ==
  ASSUME IInv, Reload
  PROVE  IInv'
<1>. DEFINE new == {Fresh(j) : j \in Reloaded}
<1>1. /\ state' = [o \in Objects |-> IF o \in new THEN "running" ELSE state[o]]
      /\ due' = due \cup new
      /\ current' = [j \in Jobs |-> IF j \in Reloaded THEN current[j] + 1 ELSE current[j]]
      /\ UNCHANGED <<failures, waiting, phase, running, on, paused, row, done, dropped>>
  BY DEF Reload
<1>2. \A j \in Reloaded : j \in Jobs /\ current[j] + 1 \in 0..MaxReloads
  BY DEF Reload, Reloaded, IInv, TypeOK
<1>3. new \subseteq Objects
  BY <1>2 DEF Fresh, Objects
<1>4. \A o \in Objects : o \in new <=> o[1] \in Reloaded /\ o[2] = current[o[1]] + 1
  BY <1>2, ObjectParts DEF Fresh
<1>5. \A o \in new : state[o] = "absent"
  BY <1>2, <1>3, <1>4 DEF IInv, TypeOK, Untouched
<1>. HIDE DEF new
<1>6. TypeOK'
  BY <1>1, <1>2, <1>3 DEF IInv, TypeOK
<1>7. Untouched'
  <2>. SUFFICES ASSUME NEW o \in Objects
                PROVE  /\ state'[o] = "absent" => phase[o] = "none" /\ failures[o] = 0
                            /\ o \notin waiting \cup due'
                       /\ o[2] > current'[o[1]] => state'[o] = "absent"
    BY <1>1 DEF Untouched
  <2>1. o[1] \in Jobs /\ o[2] \in Nat /\ current[o[1]] \in Nat
    BY ObjectParts DEF IInv, TypeOK
  <2>2. o[2] > current'[o[1]] => o[2] > current[o[1]] /\ o \notin new
    BY <1>1, <1>4, <2>1
  <2>. QED  BY <1>1, <2>2 DEF IInv, Untouched
<1>8. RetryLeft' /\ OneEntry' /\ OneExecution'
  BY <1>1, <1>3, <1>5 DEF IInv, TypeOK, Untouched, RetryLeft, OneEntry, OneExecution
<1>. QED  BY <1>6, <1>7, <1>8 DEF IInv

LEMMA NextIInv == IInv /\ [Next]_vars => IInv'
<1>1. CASE UNCHANGED vars
  BY <1>1 DEF vars, IInv, TypeOK, Untouched, RetryLeft, OneEntry, OneExecution
<1>2. CASE Next
  BY <1>2, ScheduleIInv, CancelTaskIInv, BecomesDueIInv, ExecutionIInv, SwitchIInv,
     ProcessDueJobsIInv, ReloadIInv DEF Next
<1>. QED  BY <1>1, <1>2

(* Every reachable state satisfies the inductive invariant. *)
THEOREM Invariance == Spec => []IInv
BY InitIInv, NextIInv, PTL DEF Spec

(* failure_count never exceeds max_retries, with everything else well typed. *)
THEOREM TypeCorrect == Spec => []TypeOK
<1>1. IInv => TypeOK
  BY DEF IInv
<1>. QED  BY Invariance, <1>1, PTL

(* _execute_task never runs twice at the same time for one job object, also
   with failing saves and reloads. *)
THEOREM NoOverlap == Spec => []OneExecution
<1>1. IInv => OneExecution
  BY DEF IInv
<1>. QED  BY Invariance, <1>1, PTL

(* What SuccessIsPaid needs besides: a one-time object that is still to run has
   paid for every success so far. *)
Paid(o) ==
  /\ done[o] <= failures[o] + 1 /\ done[o] <= MaxRetries
  /\ \/ state[o] = "absent" \/ o \in waiting \cup due
     \/ phase[o] \notin {"none", "saving_completed"}
     => done[o] <= failures[o]
PaidInv == \A o \in Objects : o[1] \notin Recurring => Paid(o)

(* Steps outside of the coroutine change neither count. *)
LEMMA HeapPaid ==
  ASSUME IInv, PaidInv,
         \/ \E j \in Jobs : Schedule(j) \/ CancelTask(j)
         \/ \E o \in Objects : BecomesDue(o)
         \/ Start \/ Stop \/ Pause \/ Resume \/ ProcessDueJobs \/ Reload \/ UNCHANGED vars
  PROVE  PaidInv'
<1>1. UNCHANGED <<done, failures>>
  BY Zenon DEF Schedule, CancelTask, BecomesDue, Start, Stop, Pause, Resume, ProcessDueJobs, Reload, vars
<1>2. ASSUME NEW o \in Objects,
             state'[o] = "absent" \/ o \in waiting' \cup due' \/ phase'[o] \notin {"none", "saving_completed"}
      PROVE  state[o] = "absent" \/ o \in waiting \cup due \/ phase[o] \notin {"none", "saving_completed"}
  <2>1. ASSUME NEW j \in Jobs, Schedule(j)
        PROVE  state[o] = "absent" \/ o \in waiting \cup due \/ phase[o] \notin {"none", "saving_completed"}
    BY <1>2, <2>1, FirstObject DEF Schedule, IInv, TypeOK
  <2>2. ASSUME NEW j \in Jobs, CancelTask(j)
        PROVE  state[o] = "absent" \/ o \in waiting \cup due \/ phase[o] \notin {"none", "saving_completed"}
    BY <1>2, <2>2 DEF CancelTask, IInv, TypeOK
  <2>3. CASE ProcessDueJobs
    BY <1>2, <2>3 DEF ProcessDueJobs, IInv, TypeOK
  <2>4. CASE Reload
    <3>1. o \in due' => o \in due \/ state[o] = "absent"
      <4>1. ASSUME NEW j \in Reloaded, o = Fresh(j) PROVE state[o] = "absent"
        BY <4>1 DEF Fresh, Reloaded, IInv, TypeOK, Untouched
      <4>. QED  BY <2>4, <4>1 DEF Reload
    <3>2. state'[o] = "absent" => state[o] = "absent"
      BY <2>4 DEF Reload
    <3>3. UNCHANGED <<waiting, phase>>
      BY <2>4 DEF Reload
    <3>. QED  BY <1>2, <3>1, <3>2, <3>3
  <2>5. CASE \/ \E p \in Objects : BecomesDue(p)
             \/ Start \/ Stop \/ Pause \/ Resume \/ UNCHANGED vars
    BY <1>2, <2>5 DEF BecomesDue, Start, Stop, Pause, Resume, vars
  <2>. QED  BY <2>1, <2>2, <2>3, <2>4, <2>5, Zenon
<1>. QED  BY <1>1, <1>2 DEF PaidInv, Paid

(* A coroutine counts a success only while its object has a retry left, and its
   object goes back into the heap only behind a counted failure. *)
LEMMA ExecutionPaid ==
  ASSUME IInv, PaidInv, NEW o \in Objects, Execution(o)
  PROVE  PaidInv'
<1>1. /\ \A p \in Objects \ {o} : /\ phase'[p] = phase[p] /\ state'[p] = state[p]
                                  /\ failures'[p] = failures[p] /\ done'[p] = done[p]
      /\ waiting' \in {waiting, waiting \cup {o}}
      /\ UNCHANGED due
  BY DEF Execution, BeginExecution, CallHandler, RunningSaveFails, HandlerReturns,
     ExecutionFails, FinishCompleted, FinishFailed, FailedSaveFails, HandlerCancelled, Finish, IInv, TypeOK
<1>2. /\ phase[o] # "none" /\ state[o] # "absent" /\ o \notin waiting \cup due
      /\ phase[o] # "saving_failed" => failures[o] < MaxRetries
      /\ failures[o] \in Nat /\ done[o] \in Nat
  <2>1. phase[o] # "none"
    BY Zenon DEF Execution, BeginExecution, CallHandler, RunningSaveFails, HandlerReturns,
       ExecutionFails, FinishCompleted, FinishFailed, FailedSaveFails, HandlerCancelled
  <2>. QED  BY <2>1 DEF IInv, TypeOK, EnoughDone, Untouched, RetryLeft, OneExecution
<1>3. ASSUME o[1] \notin Recurring PROVE Paid(o)'
  <2>1. Paid(o)
    BY <1>3 DEF PaidInv
  <2>2. CASE BeginExecution(o) \/ CallHandler(o) \/ RunningSaveFails(o)
    BY <1>2, <2>1, <2>2 DEF Paid, BeginExecution, CallHandler, RunningSaveFails, IInv, TypeOK
  <2>3. CASE HandlerReturns(o)
    BY <1>2, <2>1, <2>3 DEF Paid, HandlerReturns, IInv, TypeOK, EnoughDone
  <2>4. CASE ExecutionFails(o)
    BY <1>2, <2>1, <2>4 DEF Paid, ExecutionFails, IInv, TypeOK
  <2>5. CASE FinishCompleted(o)
    BY <1>2, <1>3, <2>1, <2>5 DEF Paid, FinishCompleted, Finish, IInv, TypeOK
  <2>6. CASE FinishFailed(o) \/ FailedSaveFails(o) \/ HandlerCancelled(o)
    BY <1>2, <2>1, <2>6 DEF Paid, FinishFailed, FailedSaveFails, HandlerCancelled, Finish, IInv, TypeOK
  <2>. QED  BY <2>2, <2>3, <2>4, <2>5, <2>6, Zenon DEF Execution
<1>4. ASSUME NEW p \in Objects \ {o}, p[1] \notin Recurring PROVE Paid(p)'
  BY <1>1, <1>4 DEF PaidInv, Paid
<1>. QED  BY <1>3, <1>4, Zenon DEF PaidInv

(* A one-time job succeeds at most once for every retry it uses and once more,
   and never more than max_retries times, also when saves raise after a success
   and whatever is reloaded. *)
THEOREM SuccessesPaid == Spec => []SuccessIsPaid
<1>1. Init => PaidInv
  BY DEF Init, PaidInv, Paid
<1>2. IInv /\ PaidInv /\ [Next]_vars => PaidInv'
  BY HeapPaid, ExecutionPaid, Zenon DEF Next
<1>3. PaidInv => SuccessIsPaid
  BY DEF PaidInv, Paid, SuccessIsPaid, Objects
<1>. QED  BY <1>1, <1>2, <1>3, Invariance, PTL DEF Spec

-----------------------------------------------------------------------------
(* The rest is about schedulers whose saves do not raise and that are not
   reloaded.  Neither can be left out: a save that raises after the handler has
   returned makes the job run again, and so does a reload. *)
NoFaults == ~SavesFail /\ MaxReloads = 0

(* A one-time job that is still to run has not succeeded. *)
StillToRun ==
  \A j \in Jobs \ Recurring :
    \/ state[<<j, 0>>] = "absent" \/ <<j, 0>> \in waiting \cup due
    \/ phase[<<j, 0>>] \notin {"none", "saving_completed"}
    => done[<<j, 0>>] = 0

NotYetFailed ==
  \A o \in Objects :
    phase[o] \in {"saving_running", "handler", "saving_completed"} => state[o] # "failed"

DroppedCancelled == \A j \in dropped : state[<<j, 0>>] = "cancelled"

QuietInv ==
  /\ SlotsMatch
  /\ NotYetFailed /\ RetriedUntilLimit
  /\ StillToRun /\ RunsOnce
  /\ DroppedCancelled /\ DroppedNeverRuns

LEMMA OnlyFirstObjects ==
  ASSUME NoFaults, NEW o \in Objects
  PROVE  o = <<o[1], 0>> /\ o[1] \in Jobs
BY ObjectParts DEF NoFaults

LEMMA InitQuiet == Init => QuietInv
BY FirstObject DEF Init, QuietInv, SlotsMatch, NotYetFailed, RetriedUntilLimit, StillToRun, RunsOnce,
       DroppedCancelled, DroppedNeverRuns

LEMMA HeapQuiet ==
  ASSUME NoFaults, IInv, QuietInv,
         \/ \E j \in Jobs : Schedule(j) \/ CancelTask(j)
         \/ \E o \in Objects : BecomesDue(o)
         \/ ProcessDueJobs
  PROVE  QuietInv'
<1>. USE FirstObject
<1>1. ASSUME NEW j \in Jobs, Schedule(j)
      PROVE  QuietInv'
  BY <1>1 DEF Schedule, IInv, TypeOK, Untouched, QuietInv, SlotsMatch, NotYetFailed, RetriedUntilLimit,
     StillToRun, RunsOnce, DroppedCancelled, DroppedNeverRuns
<1>2. ASSUME NEW j \in Jobs, CancelTask(j)
      PROVE  QuietInv'
  <2>1. current[j] = 0
    BY DEF NoFaults, IInv, TypeOK
  <2>. QED
    BY <1>2, <2>1 DEF CancelTask, IInv, TypeOK, OneExecution, QuietInv, SlotsMatch,
       NotYetFailed, RetriedUntilLimit, StillToRun, RunsOnce, DroppedCancelled, DroppedNeverRuns
<1>3. ASSUME NEW o \in Objects, BecomesDue(o)
      PROVE  QuietInv'
  BY <1>3 DEF BecomesDue, IInv, TypeOK, QuietInv, SlotsMatch, NotYetFailed, RetriedUntilLimit,
     StillToRun, RunsOnce, DroppedCancelled, DroppedNeverRuns
<1>4. CASE ProcessDueJobs
  <2>1. \A o \in Objects : phase'[o] = phase[o] \/ (o \in due /\ state[o] # "cancelled"
                                                      /\ phase[o] = "none" /\ phase'[o] = "created")
    BY <1>4 DEF ProcessDueJobs, IInv, TypeOK, OneExecution
  <2>2. SlotsMatch'
    BY <1>4, <2>1 DEF ProcessDueJobs, QuietInv, SlotsMatch
  <2>3. NotYetFailed' /\ RetriedUntilLimit'
    BY <1>4, <2>1 DEF ProcessDueJobs, QuietInv, NotYetFailed, RetriedUntilLimit
  <2>4. StillToRun' /\ RunsOnce'
    BY <1>4, <2>1 DEF ProcessDueJobs, QuietInv, StillToRun, RunsOnce
  <2>5. DroppedCancelled' /\ DroppedNeverRuns'
    BY <1>4, <2>1 DEF ProcessDueJobs, QuietInv, DroppedCancelled, DroppedNeverRuns, IInv, TypeOK
  <2>. QED  BY <2>2, <2>3, <2>4, <2>5 DEF QuietInv
<1>. QED  BY <1>1, <1>2, <1>3, <1>4

LEMMA ExecutionQuiet ==
  ASSUME NoFaults, IInv, QuietInv, NEW o \in Objects, Execution(o)
  PROVE  QuietInv'
<1>. USE FirstObject DEF NoFaults
<1>1. o = <<o[1], 0>> /\ o[1] \in Jobs
  BY OnlyFirstObjects
<1>2. phase[o] # "none" /\ o \notin waiting \cup due /\ o[1] \notin dropped
  <2>1. phase[o] # "none"
    BY Zenon DEF Execution, BeginExecution, CallHandler, RunningSaveFails, HandlerReturns,
       ExecutionFails, FinishCompleted, FinishFailed, FailedSaveFails, HandlerCancelled
  <2>. QED  BY <1>1, <2>1 DEF IInv, OneExecution, QuietInv, DroppedNeverRuns
<1>3. /\ \A p \in Objects \ {o} : phase'[p] = phase[p] /\ state'[p] = state[p] /\ failures'[p] = failures[p] /\ done'[p] = done[p]
      /\ \A j \in Jobs \ {o[1]} : j \in running' <=> j \in running
      /\ waiting' \in {waiting, waiting \cup {o}}
      /\ running' \subseteq Jobs
      /\ UNCHANGED <<due, dropped>>
  BY <1>1 DEF Execution, BeginExecution, CallHandler, RunningSaveFails, HandlerReturns,
     ExecutionFails, FinishCompleted, FinishFailed, FailedSaveFails, HandlerCancelled, Finish, IInv, TypeOK
<1>4. o[1] \in running' <=> phase'[o] \notin {"none", "created"}
  BY <1>1 DEF Execution, BeginExecution, CallHandler, RunningSaveFails, HandlerReturns,
     ExecutionFails, FinishCompleted, FinishFailed, FailedSaveFails, HandlerCancelled, Finish, IInv, TypeOK,
     QuietInv, SlotsMatch
<1>5. SlotsMatch'
  BY <1>1, <1>3, <1>4 DEF QuietInv, SlotsMatch
<1>6. NotYetFailed' /\ RetriedUntilLimit'
  <2>1. /\ state'[o] = "failed" /\ phase'[o] = "none" => failures'[o] = MaxRetries
        /\ phase'[o] \in {"saving_running", "handler", "saving_completed"} => state'[o] # "failed"
    BY SchedulerAssumption DEF QuietInv, NotYetFailed, Execution, BeginExecution, CallHandler, RunningSaveFails, HandlerReturns,
       ExecutionFails, FinishCompleted, FinishFailed, FailedSaveFails, HandlerCancelled, Finish, IInv, TypeOK
  <2>. QED  BY <1>3, <2>1 DEF QuietInv, NotYetFailed, RetriedUntilLimit
<1>7. StillToRun' /\ RunsOnce'
  <2>1. ASSUME o[1] \notin Recurring
        PROVE  /\ done'[o] <= 1
               /\ state'[o] # "absent"
               /\ o \in waiting' \/ phase'[o] \notin {"none", "saving_completed"} => done'[o] = 0
    BY <1>1, <1>2, <2>1 DEF Execution, BeginExecution, CallHandler, RunningSaveFails, HandlerReturns,
       ExecutionFails, FinishCompleted, FinishFailed, FailedSaveFails, HandlerCancelled, Finish, IInv, TypeOK,
       Untouched, QuietInv, StillToRun, RunsOnce
  <2>. QED
    BY <1>1, <1>2, <1>3, <2>1 DEF QuietInv, StillToRun, RunsOnce
<1>8. DroppedCancelled' /\ DroppedNeverRuns'
  BY <1>1, <1>2, <1>3 DEF QuietInv, DroppedCancelled, DroppedNeverRuns, IInv, TypeOK
<1>. QED  BY <1>5, <1>6, <1>7, <1>8 DEF QuietInv

LEMMA NextQuiet == NoFaults /\ IInv /\ QuietInv /\ [Next]_vars => QuietInv'
<1>. SUFFICES ASSUME NoFaults, IInv, QuietInv, [Next]_vars
              PROVE  QuietInv'
  OBVIOUS
<1>1. CASE UNCHANGED vars \/ Start \/ Stop \/ Pause \/ Resume
  BY <1>1 DEF vars, Start, Stop, Pause, Resume, QuietInv, SlotsMatch, NotYetFailed, RetriedUntilLimit,
     StillToRun, RunsOnce, DroppedCancelled, DroppedNeverRuns
<1>2. ~Reload
  BY DEF NoFaults, Reload, Reloaded, IInv, TypeOK
<1>. QED
  BY <1>1, <1>2, HeapQuiet, ExecutionQuiet DEF Next

(* Without faults QuietInv always holds. *)
THEOREM QuietInvariance == ASSUME NoFaults PROVE Spec => []QuietInv
<1>1. IInv /\ QuietInv /\ [Next]_vars => QuietInv'
  BY NextQuiet
<1>. QED  BY InitQuiet, <1>1, Invariance, PTL DEF Spec

(* Every path through _execute_task gives its slot back. *)
THEOREM SlotsGivenBack == ASSUME NoFaults PROVE Spec => []SlotsMatch
<1>1. QuietInv => SlotsMatch
  BY DEF QuietInv
<1>. QED  BY QuietInvariance, <1>1, PTL

(* A one-time job succeeds at most once. *)
THEOREM OneTimeOnce == ASSUME NoFaults PROVE Spec => []RunsOnce
<1>1. QuietInv => RunsOnce
  BY DEF QuietInv
<1>. QED  BY QuietInvariance, <1>1, PTL

(* A job cancelled while it waits in the heap is never started. *)
THEOREM CancelInHeap == ASSUME NoFaults PROVE Spec => []DroppedNeverRuns
<1>1. QuietInv => DroppedNeverRuns
  BY DEF QuietInv
<1>. QED  BY QuietInvariance, <1>1, PTL

(* A failed job is given up only after max_retries failures. *)
THEOREM RetriesUsedUp == ASSUME NoFaults PROVE Spec => []RetriedUntilLimit
<1>1. QuietInv => RetriedUntilLimit
  BY DEF QuietInv
<1>. QED  BY QuietInvariance, <1>1, PTL
=============================================================================
