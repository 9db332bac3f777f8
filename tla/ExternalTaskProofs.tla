------------------------- MODULE ExternalTaskProofs -------------------------
(***************************************************************************)
(* Proofs about ExternalTask, for any set of workers and any finite set of *)
(* tasks: the inductive invariant IInv, the safety properties it implies,  *)
(* and that cancelling is final.                                           *)
(***************************************************************************)
EXTENDS ExternalTask, FiniteSetTheorems, TLAPS

USE ExternalTaskAssumption

(* A poll takes only tasks that exist and are pending or failed. *)
LEMMA PolledFetchable ==
  ASSUME NEW w \in Workers
  PROVE  /\ Polled(w) \subseteq Tasks
         /\ \A t \in Polled(w) : state[t] \in {"pending", "failed"}
BY DEF Polled, Offered, Created, Fetchable

LEMMA CreatedCardinality == Cardinality(Created) \in Nat
<1>1. Created \subseteq Tasks
  BY DEF Created
<1>2. IsFiniteSet(Created)
  BY <1>1, FS_Subset
<1>. QED  BY <1>2, FS_CardinalityType

-----------------------------------------------------------------------------
LEMMA InitIInv == Init => IInv
BY DEF Init, IInv, TypeOK, TaskState, LockDiscipline, ExclusiveProcessing,
       LockHasHandler, RetryAccounting, GivesUpAfterRetries

LEMMA CreateTaskIInv ==
  ASSUME IInv, NEW t \in Tasks, CreateTask(t)
  PROVE  IInv'
<1>1. TypeOK'
  <2>1. Cardinality(Created) + 1 \in Nat
    BY CreatedCardinality
  <2>. QED  BY <2>1, SMTT(20) DEF IInv, TypeOK, TaskState, CreateTask
<1>2. /\ \A u \in Tasks : state'[u] = IF u = t THEN "pending" ELSE state[u]
      /\ state[t] = "absent"
      /\ UNCHANGED <<holder, retries, handling, failures, dropped>>
  BY DEF IInv, TypeOK, CreateTask
<1>3. LockDiscipline' /\ ExclusiveProcessing'
  BY <1>2 DEF IInv, LockDiscipline, ExclusiveProcessing
<1>4. LockHasHandler'
  BY <1>2 DEF IInv, LockHasHandler
<1>5. RetryAccounting' /\ GivesUpAfterRetries'
  BY <1>2 DEF IInv, RetryAccounting, GivesUpAfterRetries
<1>. QED  BY <1>1, <1>3, <1>4, <1>5 DEF IInv

LEMMA WorkerIInv ==
  ASSUME IInv, NEW w \in Workers, WorkerStart(w) \/ WorkerStop(w)
  PROVE  IInv'
<1>1. UNCHANGED <<state, holder, retries, born, handling, failures, dropped>>
  BY DEF WorkerStart, WorkerStop
<1>2. running' \in [Workers -> BOOLEAN]
  BY Zenon DEF WorkerStart, WorkerStop, IInv, TypeOK
<1>. QED
  BY <1>1, <1>2 DEF IInv, TypeOK, LockDiscipline, ExclusiveProcessing,
                    LockHasHandler, RetryAccounting, GivesUpAfterRetries

LEMMA FetchAndLockIInv ==
  ASSUME IInv, NEW w \in Workers, FetchAndLock(w)
  PROVE  IInv'
<1>. DEFINE P == Polled(w)
<1>1. P \subseteq Tasks /\ \A t \in P : state[t] \in {"pending", "failed"}
  BY PolledFetchable
<1>2. /\ state' = [t \in Tasks |-> IF t \in P THEN "locked" ELSE state[t]]
      /\ holder' = [t \in Tasks |-> IF t \in P THEN w ELSE holder[t]]
      /\ handling' = handling \cup {<<w, t>> : t \in P}
      /\ UNCHANGED <<retries, born, running, failures, dropped>>
  BY DEF FetchAndLock
<1>. HIDE DEF P
<1>3. TypeOK'
  BY <1>1, <1>2 DEF IInv, TypeOK, TaskState
<1>4. \A t \in P, v \in Workers : <<v, t>> \notin handling /\ <<v, t>> \notin dropped
  BY <1>1 DEF IInv, LockDiscipline, LockHasHandler
<1>5. \A v \in Workers, t \in Tasks :
        <<v, t>> \in handling' <=> <<v, t>> \in handling \/ (v = w /\ t \in P)
  BY <1>2
<1>6. LockDiscipline'
  BY <1>1, <1>2, <1>4, <1>5 DEF IInv, TypeOK, LockDiscipline
<1>7. ExclusiveProcessing'
  BY <1>4, <1>5 DEF IInv, ExclusiveProcessing
<1>8. LockHasHandler'
  <2>1. \A t \in Tasks :
          state'[t] = "locked" => <<holder'[t], t>> \in handling' \cup dropped'
    BY <1>1, <1>2, <1>5 DEF IInv, TypeOK, LockDiscipline, LockHasHandler
  <2>2. ASSUME NEW v \in Workers, NEW t \in Tasks, <<v, t>> \in dropped'
        PROVE  /\ (state'[t] = "locked" /\ holder'[t] = v) \/ state'[t] = "cancelled"
               /\ \A x \in Workers : <<x, t>> \notin handling'
    <3>1. <<v, t>> \in dropped /\ t \notin P
      BY <1>2, <1>4, <2>2
    <3>. QED  BY <1>2, <1>5, <3>1 DEF IInv, LockHasHandler
  <2>. QED  BY <2>1, <2>2 DEF LockHasHandler
<1>9. RetryAccounting' /\ GivesUpAfterRetries'
  BY <1>1, <1>2 DEF IInv, TypeOK, RetryAccounting, GivesUpAfterRetries
<1>. QED  BY <1>3, <1>6, <1>7, <1>8, <1>9 DEF IInv

(* An answer of w about t changes nothing but t, leaves w's handler behind,
   and is refused unless w holds t. *)
LEMMA AnswerIInv ==
  ASSUME IInv, NEW w \in Workers, NEW t \in Tasks,
         HandlerReturns(w, t) \/ HandlerRaises(w, t)
  PROVE  IInv'
<1>1. <<w, t>> \in handling /\ handling' = handling \ {<<w, t>>}
      /\ UNCHANGED <<born, running, dropped>>
  BY DEF HandlerReturns, HandlerRaises
<1>2. CASE holder[t] # w /\ UNCHANGED <<state, holder, retries, failures>>
  <2>1. state[t] # "locked"
    BY <1>1, <1>2 DEF IInv, LockDiscipline
  <2>. QED
    BY <1>1, <1>2, <2>1
       DEF IInv, TypeOK, LockDiscipline, ExclusiveProcessing, LockHasHandler,
           RetryAccounting, GivesUpAfterRetries
<1>3. ASSUME NEW new \in {"pending", "completed", "failed"},
             state' = [state EXCEPT ![t] = new],
             holder' = [holder EXCEPT ![t] = NoWorker]
      PROVE  LockDiscipline' /\ ExclusiveProcessing' /\ LockHasHandler'
  <2>1. \A v \in Workers : <<v, t>> \notin handling'
    BY <1>1 DEF IInv, ExclusiveProcessing
  <2>2. \A v \in Workers, u \in Tasks \ {t} : <<v, u>> \in handling' <=> <<v, u>> \in handling
    BY <1>1
  <2>3. \A u \in Tasks \ {t} : state'[u] = state[u] /\ holder'[u] = holder[u]
    BY <1>3 DEF IInv, TypeOK
  <2>4. state'[t] = new /\ holder'[t] = NoWorker
    BY <1>3 DEF IInv, TypeOK
  <2>5. LockDiscipline'
    BY <2>1, <2>2, <2>3, <2>4 DEF IInv, LockDiscipline
  <2>6. ExclusiveProcessing'
    BY <1>1 DEF IInv, ExclusiveProcessing
  <2>7. LockHasHandler'
    <3>1. ASSUME NEW u \in Tasks, state'[u] = "locked"
          PROVE  <<holder'[u], u>> \in handling' \cup dropped'
      <4>1. u # t
        BY <2>4, <3>1
      <4>. QED  BY <1>1, <2>3, <3>1, <4>1 DEF IInv, LockHasHandler
    <3>2. ASSUME NEW v \in Workers, NEW u \in Tasks, <<v, u>> \in dropped'
          PROVE  /\ (state'[u] = "locked" /\ holder'[u] = v) \/ state'[u] = "cancelled"
                 /\ \A x \in Workers : <<x, u>> \notin handling'
      <4>1. <<v, u>> \in dropped /\ u # t
        BY <1>1, <3>2 DEF IInv, LockHasHandler
      <4>. QED  BY <1>1, <2>3, <4>1 DEF IInv, LockHasHandler
    <3>. QED  BY <3>1, <3>2 DEF LockHasHandler
  <2>. QED  BY <2>5, <2>6, <2>7
<1>4. CASE Complete(w, t)
  <2>1. TypeOK' /\ RetryAccounting' /\ GivesUpAfterRetries'
    BY <1>1, <1>4, SMTT(20)
       DEF Complete, IInv, TypeOK, TaskState, RetryAccounting, GivesUpAfterRetries
  <2>. QED  BY <1>3, <1>4, <2>1 DEF Complete, IInv
<1>5. CASE Fail(w, t)
  <2>1. /\ failures' = [failures EXCEPT ![t] = IF @ > Retries THEN @ ELSE @ + 1]
        /\ holder' = [holder EXCEPT ![t] = NoWorker]
    BY <1>5 DEF Fail
  <2>2. PICK new \in {"pending", "failed"}, left \in Nat :
          /\ state' = [state EXCEPT ![t] = new]
          /\ retries' = [retries EXCEPT ![t] = left]
          /\ left + 1 >= retries[t]
          /\ new = "failed" => retries[t] <= 1
    <3>1. retries[t] \in Nat /\ retries = [retries EXCEPT ![t] = retries[t]]
      BY DEF IInv, TypeOK
    <3>2. CASE retries[t] > 1
      <4>1. retries[t] - 1 \in Nat
        BY <3>1, <3>2
      <4>2. /\ state' = [state EXCEPT ![t] = "pending"]
            /\ retries' = [retries EXCEPT ![t] = retries[t] - 1]
        BY <1>5, <3>2 DEF Fail
      <4>3. (retries[t] - 1) + 1 >= retries[t]
        BY <3>1
      <4>. QED  BY <4>1, <4>2, <4>3, Zenon
    <3>3. CASE ~(retries[t] > 1)
      BY <1>5, <3>1, <3>3 DEF Fail
    <3>. QED  BY <3>2, <3>3, Zenon
  <2>3. TypeOK'
    BY <1>1, <2>1, <2>2, SMTT(20) DEF IInv, TypeOK, TaskState
  <2>4. RetryAccounting'
    BY <2>1, <2>2 DEF IInv, TypeOK, RetryAccounting
  <2>5. GivesUpAfterRetries'
    BY <2>1, <2>2 DEF IInv, TypeOK, RetryAccounting, GivesUpAfterRetries
  <2>. QED  BY <1>3, <2>1, <2>2, <2>3, <2>4, <2>5, Zenon DEF IInv
<1>. QED  BY <1>2, <1>4, <1>5 DEF HandlerReturns, HandlerRaises

(* A handler that ends with CancelledError moves from handling to dropped. *)
LEMMA HandlerCancelledIInv ==
  ASSUME IInv, NEW w \in Workers, NEW t \in Tasks, HandlerCancelled(w, t)
  PROVE  IInv'
<1>1. /\ <<w, t>> \in handling
      /\ handling' = handling \ {<<w, t>>}
      /\ dropped' = dropped \cup {<<w, t>>}
      /\ UNCHANGED <<state, holder, retries, born, running, failures>>
  BY DEF HandlerCancelled
<1>2. TypeOK' /\ RetryAccounting' /\ GivesUpAfterRetries'
  BY <1>1 DEF IInv, TypeOK, RetryAccounting, GivesUpAfterRetries
<1>3. LockDiscipline' /\ ExclusiveProcessing'
  BY <1>1 DEF IInv, LockDiscipline, ExclusiveProcessing
<1>4. LockHasHandler'
  <2>1. \A u \in Tasks :
          state'[u] = "locked" => <<holder'[u], u>> \in handling' \cup dropped'
    BY <1>1 DEF IInv, LockHasHandler
  <2>2. ASSUME NEW v \in Workers, NEW u \in Tasks, <<v, u>> \in dropped'
        PROVE  /\ (state'[u] = "locked" /\ holder'[u] = v) \/ state'[u] = "cancelled"
               /\ \A x \in Workers : <<x, u>> \notin handling'
    <3>1. CASE <<v, u>> \in dropped
      BY <1>1, <3>1 DEF IInv, LockHasHandler
    <3>2. CASE v = w /\ u = t
      BY <1>1, <3>2 DEF IInv, LockDiscipline, ExclusiveProcessing
    <3>. QED  BY <1>1, <2>2, <3>1, <3>2
  <2>. QED  BY <2>1, <2>2 DEF LockHasHandler
<1>. QED  BY <1>2, <1>3, <1>4 DEF IInv

LEMMA CancelIInv ==
  ASSUME IInv, NEW t \in Tasks, Cancel(t)
  PROVE  IInv'
BY DEF Cancel, IInv, TypeOK, TaskState, LockDiscipline, ExclusiveProcessing,
       LockHasHandler, RetryAccounting, GivesUpAfterRetries

LEMMA NextIInv == IInv /\ [Next]_vars => IInv'
<1>1. CASE UNCHANGED vars
  BY <1>1 DEF vars, IInv, TypeOK, LockDiscipline, ExclusiveProcessing,
              LockHasHandler, RetryAccounting, GivesUpAfterRetries
<1>2. CASE Next
  BY <1>2, CreateTaskIInv, WorkerIInv, FetchAndLockIInv, AnswerIInv,
     HandlerCancelledIInv, CancelIInv
     DEF Next
<1>. QED  BY <1>1, <1>2

(* Every reachable state satisfies the inductive invariant. *)
THEOREM Invariance == Spec => []IInv
BY InitIInv, NextIInv, PTL DEF Spec

(* The manager's state is well typed; retries never falls below zero (fail). *)
THEOREM TypeCorrect == Spec => []TypeOK
<1>1. IInv => TypeOK
  BY DEF IInv
<1>. QED  BY Invariance, <1>1, PTL

(* fetch_and_lock, complete, fail and cancel together never let two handlers
   process one task at the same time. *)
THEOREM Exclusion == Spec => []ExclusiveProcessing
<1>1. IInv => ExclusiveProcessing
  BY DEF IInv
<1>. QED  BY Invariance, <1>1, PTL

(* A lock outlives its handler only when the handler was cancelled, and then
   no handler ever processes the task again (_process_task, fetch_and_lock). *)
THEOREM NoLeakedLock == Spec => []LockHasHandler
<1>1. IInv => LockHasHandler
  BY DEF IInv
<1>. QED  BY Invariance, <1>1, PTL

(* fail() gives a task up only after as many failures as it had retries. *)
THEOREM RetriesHonoured == Spec => []GivesUpAfterRetries
<1>1. IInv => GivesUpAfterRetries
  BY DEF IInv
<1>. QED  BY Invariance, <1>1, PTL

(* No late complete() or fail() revives a cancelled task. *)
THEOREM CancelWins == Spec => CancelledIsFinal
<1>. DEFINE Final == \A t \in Tasks : state[t] = "cancelled" => state'[t] = "cancelled"
<1>1. IInv /\ [Next]_vars => [Final]_vars
  <2>. SUFFICES ASSUME IInv, Next
                PROVE  Final
    OBVIOUS
  <2>1. CASE \E t \in Tasks : CreateTask(t) \/ Cancel(t)
    BY <2>1 DEF CreateTask, Cancel, IInv, TypeOK
  <2>2. CASE \E w \in Workers : WorkerStart(w) \/ WorkerStop(w)
    BY <2>2 DEF WorkerStart, WorkerStop
  <2>3. ASSUME NEW w \in Workers, FetchAndLock(w)
        PROVE  Final
    BY <2>3, PolledFetchable DEF FetchAndLock
  <2>4. CASE \E w \in Workers, t \in Tasks : HandlerReturns(w, t) \/ HandlerRaises(w, t)
    BY <2>4 DEF HandlerReturns, HandlerRaises, Complete, Fail, IInv, TypeOK, LockDiscipline
  <2>5. CASE \E w \in Workers, t \in Tasks : HandlerCancelled(w, t)
    BY <2>5 DEF HandlerCancelled
  <2>. QED  BY <2>1, <2>2, <2>3, <2>4, <2>5 DEF Next
<1>. QED  BY Invariance, <1>1, PTL DEF Spec, CancelledIsFinal
=============================================================================
