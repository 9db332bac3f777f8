# TLA+ specifications of the orchestration runtime

The repository is a Python infrastructure for multi-agent systems. Its engines
(orchestration, communication, agents, documents, knowledge, storage, ...) are
asyncio programs in one process. Most of it transforms data; the part that is hard
to test is the runtime of `src/engines/orchestration`, where coroutines share
dictionaries, suspend in saves and in application handlers, and rebuild their state
from history rows after a restart. These modules model that part, and the circuit
breaker and the durable message bus of `src/engines/communication`.

## How asyncio code becomes actions

A coroutine runs without interruption from one suspension to the next, so the code
between two suspensions is one action. A coroutine suspends

* where it awaits a handler of the application;
* where it awaits a save. The repositories write the row in memory first and
  suspend afterwards, so the row belongs to the action *before* the suspension;
* not where it awaits a coroutine that does not itself suspend.

`asyncio.create_task` only makes a coroutine ready: its body is a later action.
Time is abstract: a deadline that has not passed may pass at any moment.

Cancelling a task takes effect where it is suspended, as `asyncio.CancelledError`. It is
a `BaseException`, which `except Exception` does not catch, so it leaves a coroutine past
its error handling. It comes from a caller's timeout, or from a handler that awaits
something cancelled. In six modules it is an action of its own wherever a handler of the
application, or room in a queue, is awaited:

| Action | What the code leaves behind |
|---|---|
| `ExternalTask!HandlerCancelled` | the task locked for its worker, with nobody working on it |
| `Transaction!CallCancelled`, third case of `ScopeExit` | the lifecycle state of the loop the call was in; nothing is rolled back |
| `Scheduler!HandlerCancelled` | the job in state running and out of the heap, its slot given back |
| `EventBus!HandlerCancelled` | the delivery cut; the processor ended with `is_running` still set |
| `MessageBus!HandlerCancelled` | the consumer ended but still registered |
| `MessageBus!PublishCancelled` | the message withdrawn before it was queued |
| `Breaker!Cancel` | the probe counted |

A cancellation that falls into a save, and one of the calls of Engine, ProcessExecutor and
Correlation, is not modelled: their properties are about calls that are not cancelled. An
update cancelled between its save and the change of the sets would leave the sets behind
the state, and a `correlate_message` cancelled between two publications would leave the
rest of its list without notice.

## Inventory

| Part | State | Operations | What is hard about it |
|---|---|---|---|
| External tasks, `runtime/external_task.py` | tasks by id, queues by topic, one poll loop per worker | create, fetch-and-lock, complete, fail, cancel, start, stop | handlers that answer after a cancel, two workers on one topic, retries |
| Transactions, `core/transaction.py`, `core/transaction_states.py` | lifecycle state, participants, compensations, the manager's sets and totals | prepare, commit, rollback, context manager, cleanup | every phase suspends in handlers; a failed commit rolls back twice |
| Scheduler, `core/scheduler.py` | heap, jobs by id, running set | schedule, cancel, pass of the loop, execution, retry, reschedule, pause, stop, reload | an execution suspends four times while anybody may cancel, stop or reload |
| Event bus, `core/event_bus.py` | subscriptions, index by type, queue, history | subscribe, unsubscribe, publish, publish_sync, start, stop, clear and reload the history | subscriptions change during a delivery; a stop cuts one |
| Correlation, `core/correlation.py` | subscriptions with two indexes, buffer, history rows | subscribe, unsubscribe, correlate, instance cleanup, expiry, reload | consumption in detached tasks; a reload overtakes them |
| Circuit breaker, `communication/consumption/circuit_breaker.py` | state, failure count, opening time, probe count | execute: admit, success, failure, cancellation | calls end long after the state they were admitted in |
| Engine, instances, `core/engine*.py`, `core/instance*.py` | lifecycle, definitions, instances, active sets | start, stop, pause, resume, deploy, start/update/delete instance, recover | services suspend inside every transition |
| Tokens, `core/token.py`, `core/token_states.py` | tokens, indexes by instance and element | create, split, merge, remove, cleanup, persist, load | half-done splits and merges; a stale element index |
| BPMN execution, `bpmn/*.py` | the tokens of one instance, gateways, sub-processes | one loop per instance with waits | forks and joins |
| Message buses, `communication/buses/*.py` | queues, subscribers, processor tasks | publish, subscribe, unsubscribe, start, stop | blocked publishers, cancelled consumers |
| Rate limiter, timers, incidents, continuations, state and variable managers, `runtime/*.py` | dictionaries by name or instance | configure, check, schedule, cancel, set, restore | windows, shutdown, restore order |

The first six are modelled, and of the next four the engine with one instance, the
tokens as the executor uses them, the token loop of BPMN execution, and the durable
bus. PROJECT.json lists all the parts of the repository, with the reason for those that
are left out.

How they interact: `OrchestrationEngine.start` recovers (instances, correlation,
tokens, variables, scheduler, event history), then starts the bus and the
scheduler. The BPMN executor registers waits with the correlation engine, whose
matches are published on the bus, whose handlers resume instances. Deleting an
instance cleans up its subscriptions. `Engine` extends `ProcessExecutor` and composes
the lifecycle of the engine, the operator's calls, the execution and the rows they
share. Elsewhere a module models the interaction from its own side: a publication or a
save is a suspension; a handler may return, raise, or end with `CancelledError`.

## The modules

Every module names the Python attribute beside each variable. Variables marked
*history* exist only for the properties. Definitions whose name ends in an
underscore and a word (`Fetchable_ExpiredToo`) are deliberately wrong variants, next
to the definition they distort: each property must be refuted for one of them, which
shows that the property depends on that line of code.

### ExternalTask

`state`, `holder` and `retries` are the fields of a task. `born` is its place in
the queue of its topic, from which the code never removes anything. `handling` holds
the live `_process_task` coroutines. No method of the manager suspends, so each is
one action. A handler's answer includes the refused `complete()` and the `fail()` in
the except clause; a handler that ends with `CancelledError` reaches neither
(`HandlerCancelled`, recorded in the history variable `dropped`). `max_tasks` is given per
worker. `lock_expiration` is not part of the state: `fetch_and_lock`
writes the current time into it, and the test that reads it decides nothing.

Properties: one handler per task (`ExclusiveProcessing`); a locked task has the live
handler that will unlock it, or its handler was cancelled, and then it has none and stays
locked for that worker until `cancel()` (`LockHasHandler`); a cancelled task stays cancelled
whatever late answers arrive (`CancelledIsFinal`); a task is given up only after
`retries` failures (`GivesUpAfterRetries`); a pending task is taken by every worker
that keeps polling its topic, unless `max_tasks` others have used up their retries: these
keep their places and are fetched first for ever (`PendingIsPolled`).

### Transaction

One transaction and its manager. `pc[c]` is the suspended call of caller `c`: the
loop it is in, the handlers left, the size of the dictionary it iterates over (Python
raises when that changes) and what follows the loop. An operation is computed as far
as its next suspension by operators named after the code's phases (`EnterPrepare`,
`AfterPrepare`, `EnterCommit`, `CommitFailed`, `EnterRollback`, `AfterRollback`,
`EnterCompensation`), and `Apply` installs the result together with what the manager
does when the call returns. A call that is cancelled in a handler (`CallCancelled`) is over
without a result; the history variable `cancelled` records that it happened.

Properties, for one caller at a time: two-phase commit (`CommitNeedsAllPrepared`),
atomic outcome (`AllOrNothing`), one final outcome, also in the manager's totals
(`OutcomeIsFinal`), compensation at most once although rollbacks repeat
(`CompensatedOnce`), calls return (`CallsReturn`). A cancelled call may leave the
transaction in `committing` with some participants committed, or in `rolling_back`;
`AllOrNothing` says that nothing else does, and that every other state at rest is atomic.
After a cancelled call the totals may count both outcomes, which `OutcomeIsFinal` excepts;
that a final state stays holds all the same.

### Scheduler

A job object is a pair of a job and the number of reloads before it: a reload makes
new objects for old ids. `waiting` and `due` are the heap, `phase` the place where
the `_execute_task` coroutine is suspended, `row` the last history row.
`ProcessDueJobs` is one pass of the loop: it takes every due job or none, because the
set of running jobs grows only when a created coroutine starts.

Properties: executions of one object never overlap (`OneExecution`), slots are given
back (`SlotsMatch`), a one-time job succeeds once (`RunsOnce`), a job cancelled in the
heap never runs (`DroppedNeverRuns`), retries are used up (`RetriedUntilLimit`), full
slots only delay (`DueJobIsStarted`). A save that raises after a success makes a one-time
job run again, so `RunsOnce` needs saves that work; what holds without is that each
success but one costs a retry, and that there are at most `max_retries` (`SuccessIsPaid`).

### EventBus

`stage` is how far the publication of an event has come, `calling` and `pending` are
the loop of `_handle_event` over its snapshot of subscriptions. `Stop` cancels the
processor, in the middle of a delivery if it is in one. A handler's `CancelledError` ends
the processor as well, but `is_running` stays set (`processor = "ended"`).

Properties: no handler gets an event twice (`AtMostOnce`), a delivery that ends has
reached everybody who was subscribed all along (`NobodySkipped`), the history is the
end of the repository (`HistoryIsRecent`), a published event is delivered once the
processor keeps running (`EventuallyDelivered`). That the index agrees with the subscriptions
(`IndexMatches`) is proved.

### Correlation

`subscribe_message`, `unsubscribe_message` and `_buffer_message` do not suspend; they
are operators on the record `mem` of what the engine keeps in memory, and both the
coroutines and the replay of the history (`Replay`, a fold over `rows`) use them.
`tasks` and `forget` are the detached tasks that notify a subscription of a buffered
message and append the row of its removal.

Properties: a message waits in the buffer only
while nobody waits for it (`BufferUnmatched`); no message is lost except by eviction
or expiry (`MessageAccounted`); a buffered message has one consumer (`OneConsumer`);
what an instance's cleanup removed does not come back (`CleanedUp`); a reload
restores subscriptions and buffer whatever it overtakes (`ReloadRestores`). That the
indexes agree (`TypeOK`) is proved.

`Rendezvous` is the promise to those who wait and those who send: a message is heard by
those who wait for it and stay, or kept in order of arrival until the first who joins
hears it, newer ones need the room, or it fades. It has no tasks, no rows and no reload.
`Correlation` implements it (`RendezvousSpec`) with `waiting <- mem.subs`,
`kept <- mem.buffer`, `heard <- tasks \cup notified` (a detached task counts as heard:
nothing can stop it), `owed` the part of `correlate_message`'s list that is still
subscribed, and `faded <- expired`. The tasks, the start of a cleanup and the end of
`correlate_message` are stutters. A reload is one as well until a message has expired;
afterwards it is `Return`, which lets kept messages come back, but none that somebody
waits for, and lets nobody hear one that another has heard. `Buffers` holds the one
operator both modules share, the removal of messages from a buffer.

### Breaker

Sections under the lock do not suspend, so `Admit`, `Succeed`, `Fail` and `Cancel` are
the steps of a call. `failures` is kept up to the threshold, with which alone it is
compared.

Properties: the breaker is closed exactly while fewer than the threshold of calls
have failed since the last success (`TripsAtThreshold`), probes are limited
(`ProbesLimited`), an open one lets a call through again (`OpenRecovers`). That an open
one knows since when (`OpenIsTimed`) and that one failed probe opens it again
(`ProbeFailureReopens`) is proved.

### MessageBus and Mailbox

One recipient of the durable bus. Messages are pairs of a sender and a number, so that
order can be stated. `putting` are the `publish` calls that wait for room; `asyncio.Queue`
itself is external and modelled by what `publish` and `_consume` see of it. Consumer
tasks are numbered: a cancelled one may linger in its handler while the next one works.
A `publish` that waits may be cancelled (`PublishCancelled`). A handler's own
`CancelledError` ends its consumer, which stays registered (`HandlerCancelled`).

`Mailbox` is the promise: once open no message is refused, what a sender published is
handed over at most once and in order, and a message can be called off only while its
sender waits. `MessageBus` implements it with `opened <- created`, `offered <- putting`
and `pending <- Queued` (`MailboxSpec`).

Further properties: a published message is in exactly one place whatever subscriptions
come and go (`Accounted`); as long as the recipient stays subscribed, every accepted
message is handed over, those of waiting senders included, unless the consumer was ended
by its own handler (`Delivered`).

### ProcessExecutor and Engine

`ProcessExecutor` is the loop of `execute()` over a process model: a record of node
kinds, flows in document order, the start node, and whether the payload carried typed
elements. An iteration is `Visit` (up to the activity), `Perform` (activity, flow
selection, the join test), and one `SaveToken` for each token wherever
`_persist_tokens` is awaited; a wait ends in `Register`. The saves that follow a
finished activity write what the previous saves wrote and are not repeated in the model.
`BPMNEngine` passes no typed elements, so with it gateways are plain nodes; the gateway
branches of the loop are those of callers that pass `flow_elements`.

`Engine` adds the engine around one instance. `inst` is the object in
`engine.instances`, `row` its row, `listed` the engine's sets. An update is two steps,
the state change with its save and the change of the sets. A start loads new objects
into the managers: from then on (`detached`, `tokensOld`) what the engine changes is not
what the managers save. A start may fail before or after the services have started. A
crash keeps the rows and forgets the rest.

Properties: a completed execution leaves no token behind (`CompletedIsQuiet`); no
activity runs twice (`RunsOnce`); every execution ends (`ExecutionEnds`); a subscription
never exists without a saved token that waits (`SubscriptionHasToken`); a completed or
terminated instance never changes again (`FinalIsFinal`); the sets follow the state
(`SetsFollow`, for active and suspended instances); the services follow the lifecycle
(`ServicesFollow`).

Outside of the model is the last branch of `update_instance_state`
(`engine_services.py`, lines 235 to 237), which sets the states draft, closed, compensating
and migrating without asking the state object: `FinalIsFinal` does not speak of an update
to one of these, which would change a finished instance.

## The runs

| Run | Instance | Result |
|---|---|---|
| `external_task` | 2 workers (one lists its topics, one polls all), 2 tasks on 2 topics, 2 retries; `max_tasks` 1 and 2 | all properties hold |
| `transaction_single_caller` | 1 caller, 2 participants that join before or during prepare, 2 compensations | all properties hold |
| `scheduler` | 1 one-time and 1 recurring job, 1 slot, 2 retries | all properties hold |
| `scheduler_faults` | 1 one-time job, 3 retries, failing saves, 1 reload | successes stay within the retries |
| `event_bus` | 2 events of 2 types, 2 subscriptions with priorities and a filter, history of 1 | all properties hold |
| `correlation` | 2 subscriptions of 1 instance, 3 messages, buffer of 2, 1 expiring message, 1 reload | all properties hold; refines `Rendezvous` |
| `breaker` | 4 callers, threshold 3, 2 further probes | all properties hold |
| `breaker_stuck` | the same | a half open breaker whose probes are cancelled stays half open |
| `message_bus` | 2 senders with 2 messages each, queue of 1, 3 consumers in turn | all properties hold; refines `Mailbox` |
| `engine` | 12 process models of up to 3 nodes, step limit 4, 2 operator calls, 3 administrator calls, 1 crash | all properties hold |
| `engine_fork` | a parallel gateway with 2 branches, as `BPMNEngine` passes it | completes with one branch executed |
| `engine_restart` | a task and a wait, 3 administrator calls | after a restart the engine's instance and its row part |

Why these bounds are enough for the cases of interest: two of every actor give every
pairwise interleaving. Two retries tell the first, the middle and the last failure
apart. One slot for two jobs makes the limit bind. A buffer of two with three messages,
and a history of one with two events, overflow. Three failures among four callers leave
one call that ends late. The worker that takes one task per poll can be starved by one
given-up task, the other cannot. One message fills the queue while both senders have
another, and three consumers let a cancelled one linger beside its successor. The step limit of
4 stands for the code's 200: it lets every model without a circle of gateways finish and
stops the one with it. Three administrator calls are a start, a stop and a second start;
two operator calls are a suspension and what follows it. In `correlation` the two subscriptions are interchangeable
(same name, keys and instance; no property tells them apart; the run has no liveness
property), so they are declared symmetric.

`correlation`, `message_bus`, `engine` and `breaker` do not check deadlock: the first
three come to rest when every message is sent, every execution over and every bounded
call used; the last really can get stuck, which is the subject of `breaker_stuck`.

### Fairness

* ExternalTask: the poll loop sleeps and polls again. Nothing is assumed of handlers,
  which may hang; `PendingIsPolled` releases the worker that is stopped.
* Transaction: handlers answer, or the call is cancelled. Nothing is assumed of callers.
* Scheduler: the loop runs every second while the scheduler is on; time passes;
  handlers and saves end, in one way or another. Nothing is assumed of start, stop, pause or cancel.
* EventBus: saves and handlers end, and the processor takes what is queued. The
  property itself asks for a processor that keeps running.
* Breaker: time passes, calls end, and somebody keeps calling.
* MessageBus: handlers end, a consumer takes what is queued, and a sender that waits
  for room is woken. Nothing is assumed of senders and subscribers.
* Engine: saves and activities end. Nothing is assumed of operators and administrators.

All are weak: the asyncio loop runs every ready task in turn, and each of these
actions stays enabled until it is taken or disabled by a step the property allows.

## What is proved

The proofs hold for every value of the constants that satisfies the named `ASSUME` of
the component's module. Each rests on an inductive invariant `IInv`.

* **ExternalTaskProofs**: any workers and any finite set of tasks. `ExclusiveProcessing`
  is not inductive alone: it needs `LockDiscipline` (a live handler belongs to the
  holder unless the task was cancelled under it; a task is locked iff it has a holder),
  since only that excludes a fetch of a task that is being processed.
  `LockHasHandler` is part of the invariant: the task of a cancelled handler is never
  fetched again, so no handler of it comes into being. `GivesUpAfterRetries` needs
  `RetryAccounting` (every failure is paid for with a retry). `CancelledIsFinal` follows because a cancelled task has no holder.
* **SchedulerProofs**: any jobs and limits. `TypeOK` (with `failure_count <= max_retries`)
  `OneExecution` and `SuccessIsPaid` are proved with failing saves and reloads included.
  The first two need
  `RetryLeft` (an object in the heap or in execution has a retry left), `OneEntry` (it
  is in the heap once) and `Untouched` (an object of a later reload has no trace yet).
  `SuccessIsPaid` follows with `RetryLeft` from `Paid`: an object that is still to run has
  failed at least as often as it has succeeded. `SlotsMatch`,
  `RunsOnce`, `DroppedNeverRuns` and `RetriedUntilLimit` are proved under `NoFaults`
  (saves do not raise, no reload): the code does not keep them otherwise.
* **EventBusProofs**: any events, types, filters and priorities. `AtMostOnce` needs that
  the queue holds an event once (`QueuedOnce`) and that what is pending has not been
  called (`Uncalled`); `NobodySkipped` needs that whoever is owed an event is subscribed
  or still pending (`OwedIsKept`), which in turn needs `IndexMatches`. `HistoryIsRecent`
  is restated position by position (`Recent`), which with `TypeOK` is inductive.
* **BreakerProofs**: any callers and limits. `TripsAtThreshold` and `ProbeFailureReopens`
  need `Accounted`: the breaker's own count equals the failures since the last success,
  and the probes counted are one fewer than the calls let through.
* **MessageBusProofs**: any senders, queue size and numbers of messages and consumers.
  `Accounted` needs `Shape` (only live tasks hold messages), `Covered` and `Apart` (the
  places cover what was sent, and do not overlap) and `OneHolder`. That every step of the
  bus is a step of `Mailbox` or a stutter needs `Order`: a sender waits for at most one
  message, its last, and its queued messages are in order and behind those handed over.
* **EngineProofs**: any process models with finitely many flows per node, any step limit,
  calls and crashes. `Services`, `Sets`, `Rows` and `Finishing` tie lifecycle, sets and
  rows to the suspended calls. `Loop` carries the executor: where it is, which tokens may
  be active, that what ran was visited; `Stored` says how far the rows of the tokens
  follow the tokens at each point of a save. `CompletedIsQuiet`, `RunsOnce`,
  `SubscriptionHasToken`, `SetsFollow`, `ServicesFollow` and `FinalIsFinal` follow.

  `Advances` is the measure behind `ExecutionEnds`: every step of the executor, of its
  save and of its end lowers, in lexicographic order, the iterations that the step limit
  leaves, the place in the iteration and the tokens still to be saved, and no step of
  anyone else changes it while the execution is under way, except that a crash ends it.
* **TransactionProofs**: any participants, compensations and orders, for one caller at a
  time (`OneCaller`) and participants that join no later than during prepare
  (`JoinsEarly`). Each operator that computes how far a call gets (`EnterPrepare`,
  `AfterRollback`, ...) has a lemma that its outcome is `Sound`: what is left of a loop is
  the end of the roster (`Aligned`), what is behind it is prepared, committed or undone.
  `OnRoster` (only a participant on the roster has committed) and `RunsMarked` (a
  compensation has run once iff it is marked) complete the invariant. Cancellation is
  included: `AtRest` allows `committing` and `rolling_back` between calls if a call was
  cancelled, and in `committing` everybody is still prepared, which is what keeps two-phase
  commit when the call is repeated.

  `TypeOK` is proved for any number of callers. It says that the sorted list of
  compensations is complete, which is a counting argument: in the sorted list a
  compensation stands behind as many others as come before it, no two have the same
  place, and so every place is taken, as the positions are finitely many.
  `CallsComeToAnEnd`, for any number of callers too, is the measure behind `CallsReturn`:
  each answer of a handler moves its call to a later loop (prepare, commit, first
  rollback, its compensations, last rollback, its compensations) or shortens the list of
  the loop it is in, whatever joins meanwhile, and nothing else moves a suspended call but
  its cancellation, which ends it.
* **CorrelationProofs**: any subscriptions, messages, instances, buffer size and number
  of reloads. A reload replaces the memory by the replay of the rows, so nothing about
  the memory alone is inductive: `IInv` speaks of the memory and of `End`, what a reload
  at this moment would end in. Both are `Good` (indexes, limit, nothing matched in the
  buffer) and have the same subscriptions and, unless messages have expired, the same
  buffer (`EndInv`); each message ever buffered is in the buffer, gone or consumed by one
  subscription, in both (`MessageInv`). `ReplayAppend` says that one row more applies the
  row to `End`; what is left is one lemma per action. The "deleted" row of a consumed
  message comes late and changes nothing, since the replay of the subscription has taken
  the message already: this is why a reload between the two is harmless.
  The refinement of `Rendezvous` needs `MInv` besides: only subscriptions with a row are
  on the list of a `correlate_message` (so a new one is owed nothing), and whatever the
  replay consumes matches and, until a message has expired, was consumed before (so a
  reload tells nobody anything new). Then there is one lemma per action, from `JoinStep` to
  `ReturnStep`. All six properties of the run are proved.

`TypeOK` of every component is proved (`TypeCorrect`). The loops over the buffer and
over the rows are recursive functions; an induction over sets of naturals (from `WFMin`)
shows that they exist and what each round does.

Only model-checked: the liveness properties `OpenRecovers`, `EventuallyDelivered`,
`ExecutionEnds`, `PendingIsPolled`, `Delivered`, `DueJobIsStarted` and `CallsReturn`,
which are beyond the prover, and the three runs that end in a counterexample. For
`ExecutionEnds` and `CallsReturn` the decreasing measure is proved (`Advances`,
`CallsComeToAnEnd`); what stays with TLC is that a step is enabled until the end and, as
the fairness demands, taken. Every safety property that a run finds to hold has a theorem.

## Where the code and its documentation disagree

Three runs end in a counterexample; the findings in PROJECT.json quote the lines. The
models show further behaviour that a reader of the code should know, without a run of
its own:

* External tasks: a lock whose handler never answers is never released, as line 204
  skips locked tasks whether or not their lock has expired. Neither is that of a handler
  that ended with `CancelledError`, which line 138 does not catch. As many given-up tasks
  as a poll takes starve everything behind them (line 189). A task whose retries are
  used up is logged as "failed permanently" (line 261) and fetched again at the next
  poll, as line 204 takes failed tasks like pending ones.
* Transactions: a participant added after `prepare()` is committed unprepared;
  compensations run in descending `order`, while the comment at the field speaks of
  ascending; the context manager ignores a commit that returns False; a commit of a
  failed transaction rolls back and is counted as committed. With two callers, a prepare
  suspended in a handler overwrites a rollback that ran meanwhile
  (`transaction_states.py`, line 35), and the rolled back transaction can be committed.
  A `commit()` cancelled in a commit handler leaves `committing` with some participants
  committed (`transaction.py`, line 215); repeated, it returns True without calling the
  rest (`transaction_states.py`, line 96), and a rollback returns True after that, so that
  both totals count the transaction. A cancelled rollback leaves `rolling_back` for ever,
  and repeating it returns True without doing anything. A body of the context manager that
  is cancelled is neither committed nor rolled back (`transaction.py`, line 413).
* Scheduler: a burst of due jobs exceeds `max_concurrent_tasks`; a cancel after the pop
  or during an execution is overwritten; a job whose handler raises `CancelledError` stays
  in state running and is neither retried nor rescheduled; `failure_count` of a recurring job is never reset; a save
  that fails after the handler has succeeded makes the job run again; a save that fails
  before the handler keeps the slot for ever. A reload takes each job's oldest row, so a
  completed one-time job is put back into the heap (line 361), with a handler that does
  nothing (line 368).
* Correlation: every reload notifies the consumer of a buffered message again, and
  expired messages come back.
* Event bus: two publications may be queued in the other order than they were recorded.
  A handler's `CancelledError` ends the processor while `is_running` stays set, so that
  `start()` does nothing until somebody calls `stop()`.
* Breaker: a success of a call admitted before the opening closes the open breaker.
* Message bus: a message whose handler is cancelled by `unsubscribe` is not redelivered;
  a sender that waits for a recipient without subscription waits for the next one. A
  handler's own `CancelledError` ends the consumer (line 52), which stays registered, so
  that `subscribe` has no effect and nothing is delivered until an `unsubscribe`.
* BPMN execution: with typed elements a parallel fork leaves its own token active at the
  gateway, and the execution stalls when it returns there. Without them an exclusive
  gateway whose flows all have conditions on variables completes the instance there.
* Engine: an update to ACTIVE of a finished instance lists it as active. An execution
  that ends while its instance is suspended fails to complete it, and after a resume
  nothing runs any more. A delete during an execution does not stop it, and the wait it
  registers later stays. Interleaved updates of two operators, or start and stop by two
  administrators, can leave sets or services wrong; the model has one of each.
  `start()` of a paused engine leaves the scheduler paused.

## What could follow

1. Resumption of a waiting instance: Correlation, EventBus and Engine composed.
2. Sub-processes, event-based gateways and loops in ProcessExecutor.
3. Deployments and definition versions in Engine; several instances.
4. The priority and request-reply buses.
5. Event subscriptions in Correlation.

## What is not modelled

Parsers, writers, expression languages, validators and generators are functions on
data without shared state. Storage, broker, transport and language-model adapters are
input and output. Payloads, error texts, log lines and timestamps are left out of the
modelled components. `throw_event` of the correlation engine iterates over a live set
across awaits: what happens when the set changes depends on the layout of Python's hash
table, so it is left out. Each part and its reason is in PROJECT.json.
