---------------------------- MODULE ExternalTask ----------------------------
(***************************************************************************)
(* The external task pattern of the orchestration runtime:                 *)
(* ExternalTaskManager and the ExternalTaskWorkers that poll it            *)
(* (engines/orchestration/runtime/external_task.py).                       *)
(*                                                                         *)
(* No method of the manager suspends, so each is one atomic step.  A       *)
(* worker's poll loop locks tasks and starts one _process_task coroutine   *)
(* per task; the coroutine suspends in the handler, and everything else    *)
(* may happen before the handler answers.                                  *)
(*                                                                         *)
(* fetch_and_lock writes the current time into lock_expiration (line 206), *)
(* so by the next fetch every lock has expired; the expiry test of lines   *)
(* 194-203 then falls through to line 204, which skips every task that is  *)
(* neither pending nor failed.  lock_expiration therefore decides nothing  *)
(* and is not part of the state.                                           *)
(***************************************************************************)
EXTENDS Integers, Sequences, FiniteSets, FiniteSetsExt

CONSTANTS Tasks,     \* task identities (uuid4 in create_task)
          Workers,   \* worker_id values
          Topic,     \* the topic of every task
          Serves,    \* the topics every worker polls, in its order; <<>> is all
          Retries,   \* the "retries" every task is created with
          MaxTasks,  \* max_tasks of every worker's polls
          NoWorker   \* worker_id = None

ASSUME ExternalTaskAssumption ==
  /\ IsFiniteSet(Tasks)
  /\ NoWorker \notin Workers
  /\ Retries \in Nat
  /\ MaxTasks \in [Workers -> Nat \ {0}]
  /\ DOMAIN Topic = Tasks
  /\ DOMAIN Serves = Workers
  /\ \A w \in Workers : Serves[w] \in Seq({Topic[t] : t \in Tasks})

VARIABLES state,     \* ExternalTask.state; "absent" before create_task
          holder,    \* ExternalTask.worker_id
          retries,   \* ExternalTask.retries
          born,      \* place in its topic's queue: tasks never leave _topic_queues
          running,   \* ExternalTaskWorker._running, per worker
          handling,  \* the live _process_task coroutines, as <<worker, task>>
          failures,  \* history: fail() calls applied to a task, saturating
          dropped    \* history: the coroutines that ended with CancelledError

vars == <<state, holder, retries, born, running, handling, failures, dropped>>

TaskState == {"absent", "pending", "locked", "completed", "failed", "cancelled"}
Created == {t \in Tasks : state[t] # "absent"}

TypeOK ==
  /\ state \in [Tasks -> TaskState]
  /\ holder \in [Tasks -> Workers \cup {NoWorker}]
  /\ retries \in [Tasks -> Nat]
  /\ born \in [Tasks -> Nat]
  /\ running \in [Workers -> BOOLEAN]
  /\ handling \subseteq Workers \X Tasks
  /\ failures \in [Tasks -> Nat]
  /\ dropped \subseteq Workers \X Tasks

Init ==
  /\ state = [t \in Tasks |-> "absent"]
  /\ holder = [t \in Tasks |-> NoWorker]
  /\ retries = [t \in Tasks |-> Retries]
  /\ born = [t \in Tasks |-> 0]
  /\ running = [w \in Workers |-> FALSE]
  /\ handling = {}
  /\ failures = [t \in Tasks |-> 0]
  /\ dropped = {}

-----------------------------------------------------------------------------
CreateTask(t) ==
  /\ state[t] = "absent"
  /\ state' = [state EXCEPT ![t] = "pending"]
  /\ born' = [born EXCEPT ![t] = Cardinality(Created) + 1]
  /\ UNCHANGED <<holder, retries, running, handling, failures, dropped>>

WorkerStart(w) ==
  /\ ~running[w]
  /\ running' = [running EXCEPT ![w] = TRUE]
  /\ UNCHANGED <<state, holder, retries, born, handling, failures, dropped>>

(* stop() cancels the poll loop only: the handlers it started live on. *)
WorkerStop(w) ==
  /\ running[w]
  /\ running' = [running EXCEPT ![w] = FALSE]
  /\ UNCHANGED <<state, holder, retries, born, handling, failures, dropped>>

(* Mutant of Fetchable: an expired lock is fetched again (the test of line 204
   forgotten), without a fence against the first handler. *)
Fetchable_ExpiredToo(t) == state[t] \in {"pending", "failed", "locked"}

Fetchable(t) == state[t] \in {"pending", "failed"}

(* Where w's scan meets the topic of t: the place in its list of topics or,
   without a list, the order in which _topic_queues got its keys. *)
TopicRank(w, t) ==
  IF Serves[w] = <<>>
  THEN Min({born[u] : u \in {v \in Created : Topic[v] = Topic[t]}})
  ELSE CHOOSE i \in DOMAIN Serves[w] : Serves[w][i] = Topic[t]

ServesTopic(w, t) ==
  Serves[w] = <<>> \/ \E i \in DOMAIN Serves[w] : Serves[w][i] = Topic[t]

Offered(w) == {t \in Created : Fetchable(t) /\ ServesTopic(w, t)}

Ahead(w, u, t) ==
  \/ TopicRank(w, u) < TopicRank(w, t)
  \/ TopicRank(w, u) = TopicRank(w, t) /\ born[u] < born[t]

(* Mutant of Polled: the limit test counts one too many. *)
Polled_OneShort(w) ==
  {t \in Offered(w) : Cardinality({u \in Offered(w) : Ahead(w, u, t)}) + 1 < MaxTasks[w]}

(* The tasks a poll of w takes: the first max_tasks fetchable ones, topic by
   topic, each topic in creation order (priority_enabled is never read). *)
Polled(w) ==
  {t \in Offered(w) : Cardinality({u \in Offered(w) : Ahead(w, u, t)}) < MaxTasks[w]}

FetchAndLock(w) ==
  /\ running[w]
  /\ Polled(w) # {}
  /\ state' = [t \in Tasks |-> IF t \in Polled(w) THEN "locked" ELSE state[t]]
  /\ holder' = [t \in Tasks |-> IF t \in Polled(w) THEN w ELSE holder[t]]
  /\ handling' = handling \cup {<<w, t>> : t \in Polled(w)}
  /\ UNCHANGED <<retries, born, running, failures, dropped>>

(* complete(t, w): refused with ValueError unless w holds t. *)
Complete(w, t) ==
  /\ holder[t] = w
  /\ state' = [state EXCEPT ![t] = "completed"]
  /\ holder' = [holder EXCEPT ![t] = NoWorker]
  /\ UNCHANGED <<retries, failures>>

(* Mutant of Fail: the comparison with 1 is off by one. *)
Fail_TooEarly(w, t) ==
  /\ holder[t] = w
  /\ holder' = [holder EXCEPT ![t] = NoWorker]
  /\ failures' = [failures EXCEPT ![t] = IF @ > Retries THEN @ ELSE @ + 1]
  /\ retries' = [retries EXCEPT ![t] = IF @ > 2 THEN @ - 1 ELSE @]
  /\ state' = [state EXCEPT ![t] = IF retries[t] > 2 THEN "pending" ELSE "failed"]
(* fail(t, w, retries=task.retries): the last retry ends in "failed". *)
Fail(w, t) ==
  /\ holder[t] = w
  /\ holder' = [holder EXCEPT ![t] = NoWorker]
  /\ failures' = [failures EXCEPT ![t] = IF @ > Retries THEN @ ELSE @ + 1]
  /\ IF retries[t] > 1
     THEN /\ state' = [state EXCEPT ![t] = "pending"]
          /\ retries' = [retries EXCEPT ![t] = @ - 1]
     ELSE /\ state' = [state EXCEPT ![t] = "failed"]
          /\ UNCHANGED retries

(* The handler's answer.  When complete() is refused, the except clause calls
   fail(), which is refused for the same reason, and the coroutine ends. *)
HandlerReturns(w, t) ==
  /\ <<w, t>> \in handling
  /\ handling' = handling \ {<<w, t>>}
  /\ \/ Complete(w, t)
     \/ holder[t] # w /\ UNCHANGED <<state, holder, retries, failures>>
  /\ UNCHANGED <<born, running, dropped>>

(* Mutant of HandlerRaises: the exception is logged and fail() not called. *)
HandlerRaises_LogOnly(w, t) ==
  /\ <<w, t>> \in handling
  /\ handling' = handling \ {<<w, t>>}
  /\ UNCHANGED <<state, holder, retries, failures, born, running, dropped>>

HandlerRaises(w, t) ==
  /\ <<w, t>> \in handling
  /\ handling' = handling \ {<<w, t>>}
  /\ \/ Fail(w, t)
     \/ holder[t] # w /\ UNCHANGED <<state, holder, retries, failures>>
  /\ UNCHANGED <<born, running, dropped>>

(* The handler ends with asyncio.CancelledError (something it awaits was
   cancelled): _process_task catches Exception only, so neither complete() nor
   fail() is called and the task keeps its state and its worker. *)
HandlerCancelled(w, t) ==
  /\ <<w, t>> \in handling
  /\ handling' = handling \ {<<w, t>>}
  /\ dropped' = dropped \cup {<<w, t>>}
  /\ UNCHANGED <<state, holder, retries, born, running, failures>>

(* Mutant of Cancel: the worker is not cleared. *)
Cancel_KeepsWorker(t) ==
  /\ state[t] # "absent"
  /\ state' = [state EXCEPT ![t] = "cancelled"]
  /\ UNCHANGED <<holder, retries, born, running, handling, failures, dropped>>

Cancel(t) ==
  /\ state[t] # "absent"
  /\ state' = [state EXCEPT ![t] = "cancelled"]
  /\ holder' = [holder EXCEPT ![t] = NoWorker]
  /\ UNCHANGED <<retries, born, running, handling, failures, dropped>>

Next ==
  \/ \E t \in Tasks : CreateTask(t) \/ Cancel(t)
  \/ \E w \in Workers : WorkerStart(w) \/ WorkerStop(w) \/ FetchAndLock(w)
  \/ \E w \in Workers, t \in Tasks :
       HandlerReturns(w, t) \/ HandlerRaises(w, t) \/ HandlerCancelled(w, t)

Spec == Init /\ [][Next]_vars

(* The poll loop runs again after every poll_interval, as long as the worker
   runs; handlers are the application's and may hang. *)
FairSpec == Spec /\ \A w \in Workers : WF_vars(FetchAndLock(w))

-----------------------------------------------------------------------------
(* A task is never in the hands of two handlers at once: neither two workers
   nor a late and a new attempt ever process the same task concurrently. *)
ExclusiveProcessing ==
  \A w1, w2 \in Workers, t \in Tasks :
    <<w1, t>> \in handling /\ <<w2, t>> \in handling => w1 = w2

(* The only way to leak a lock is a cancelled handler.  fetch_and_lock never
   takes a locked task again, so a locked task must have the live handler that
   will unlock it, of the worker the task names; or that very handler ended
   with CancelledError, and then nobody ever processes the task again: it is
   locked for that worker until cancel(). *)
LockHasHandler ==
  /\ \A t \in Tasks :
       state[t] = "locked" => <<holder[t], t>> \in handling \cup dropped
  /\ \A w \in Workers, t \in Tasks :
       <<w, t>> \in dropped =>
         /\ (state[t] = "locked" /\ holder[t] = w) \/ state[t] = "cancelled"
         /\ \A v \in Workers : <<v, t>> \notin handling

(* Cancelling wins over a late answer: complete() and fail() of the handler
   that was running are refused, so a cancelled task stays cancelled. *)
CancelledIsFinal ==
  [][\A t \in Tasks : state[t] = "cancelled" => state'[t] = "cancelled"]_vars

(* fail() gives a task up only after as many failures as it had retries. *)
GivesUpAfterRetries ==
  \A t \in Tasks : state[t] = "failed" => failures[t] >= Retries

(* What the four safety properties rest on: a live handler belongs to the
   worker that holds the lock unless the task was cancelled under it, only a
   locked task has a holder, and every failure is paid for with a retry. *)
LockDiscipline ==
  /\ \A w \in Workers, t \in Tasks :
       <<w, t>> \in handling =>
         (state[t] = "locked" /\ holder[t] = w) \/ state[t] = "cancelled"
  /\ \A t \in Tasks : state[t] = "locked" <=> holder[t] # NoWorker
RetryAccounting == \A t \in Tasks : Retries <= failures[t] + retries[t]

IInv ==
  /\ TypeOK
  /\ LockDiscipline
  /\ ExclusiveProcessing
  /\ LockHasHandler
  /\ RetryAccounting
  /\ GivesUpAfterRetries

(* Starving takes as many given-up tasks as a poll takes.  As long as a worker
   that serves its topic keeps polling, a pending task is taken, however often
   the tasks ahead of it fail, unless max_tasks others have used up their
   retries: these stay in the queue and are fetched again and again. *)
PendingIsPolled ==
  \A t \in Tasks, w \in Workers :
    state[t] = "pending" /\ ServesTopic(w, t) ~>
      \/ state[t] # "pending"
      \/ ~running[w]
      \/ Cardinality({u \in Tasks \ {t} : failures[u] >= Retries}) >= MaxTasks[w]
=============================================================================
