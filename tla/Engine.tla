------------------------------- MODULE Engine -------------------------------
(***************************************************************************)
(* The orchestration engine (orchestration/core/engine.py, engine_states.  *)
(* py, engine_services.py, instance.py, instance_states.py) around one     *)
(* process instance, whose execution is ProcessExecutor started by         *)
(* bpmn/engine.py.                                                         *)
(*                                                                         *)
(* Actors: the coroutine that starts and executes the instance; an         *)
(* operator who suspends, resumes, terminates and deletes it; an           *)
(* administrator who starts, stops, pauses and resumes the engine.  The    *)
(* process may crash, and a new engine is built on the same repositories.  *)
(*                                                                         *)
(* Starting an engine loads every instance and token from its row into a   *)
(* new object.  The managers keep the new objects and save those; the      *)
(* engine and an execution under way keep the old ones (detached,          *)
(* tokensOld).  State snapshots, published events and calls that raise     *)
(* without effect are left out; no call and no execution is cancelled.     *)
(***************************************************************************)
EXTENDS ProcessExecutor

CONSTANTS MaxCalls,    \* bound: calls of the operator
          MaxAdmin,    \* bound: calls of the administrator
          MaxCrashes   \* bound: crashes

ASSUME EngineAssumption == MaxCalls \in Nat /\ MaxAdmin \in Nat /\ MaxCrashes \in Nat

VARIABLES life,        \* _lifecycle_state.name
          bus,         \* event_bus.is_running
          sched,       \* scheduler.is_running
          hold,        \* scheduler.is_paused
          admin,       \* what the administrator's call is suspended in
          inst,        \* state of the instance in engine.instances, or "none"
          row,         \* state in the instance's row, or "none"
          listed,      \* the engine's sets that name it: active, suspended
          updating,    \* update_instance_state() calls suspended after the save
          finishing,   \* the executing coroutine has been through its update
          detached,    \* the instance manager holds another object
          tokensOld,   \* tokens of which the token manager holds other objects
          calls, admins, crashes   \* bounds

engVars == <<life, bus, sched, hold, admin, inst, row, listed, updating,
             finishing, detached, tokensOld, calls, admins, crashes>>
vars == <<execVars, engVars>>

States == {"none", "active", "suspended", "completed", "terminated", "failed"}
Final == {"completed", "terminated"}

Init ==
  /\ ExecInit
  /\ life = "stopped" /\ bus = FALSE /\ sched = FALSE /\ hold = FALSE /\ admin = "none"
  /\ inst = "none" /\ row = "none" /\ listed = {} /\ updating = {} /\ finishing = FALSE
  /\ detached = FALSE /\ tokensOld = {}
  /\ calls = 0 /\ admins = 0 /\ crashes = 0

-----------------------------------------------------------------------------
(* persist_instance: the row of the object that the manager holds, which is not
   changed by anybody once it is another one. *)
Saved(state) == IF detached THEN row ELSE state

(* Mutant of Allowed: a completed instance can be terminated. *)
Allowed_AnyState(from, to) ==
  CASE to = "suspended"  -> from = "active"
    [] to = "active"     -> from = "suspended"
    [] to = "completed"  -> from = "active"
    [] to = "failed"     -> from \in {"active", "suspended"}
    [] to = "terminated" -> from # "none"

(* The state objects: which changes do not raise.  Resuming an instance that is
   not suspended is skipped by the caller instead. *)
Allowed(from, to) ==
  CASE to = "suspended"  -> from = "active"
    [] to = "active"     -> from = "suspended"
    [] to = "completed"  -> from = "active"
    [] to = "failed"     -> from \in {"active", "suspended"}
    [] to = "terminated" -> from \in {"active", "suspended", "failed"}

(* Mutant of Relist: a suspended instance stays among the active ones. *)
Relist_KeepsActive(to) ==
  CASE to = "suspended" -> listed \cup {"suspended"}
    [] to = "active"    -> {"active"}
    [] OTHER            -> {}

(* The end of engine.update_instance_state: the sets. *)
Relist(to) ==
  CASE to = "suspended" -> {"suspended"}
    [] to = "active"    -> {"active"}
    [] OTHER            -> {}

(* start_process_instance and start_instance, up to the execution. *)
StartInstance ==
  /\ inst = "none" /\ pc = "idle"
  /\ inst' = "active" /\ listed' = {"active"} /\ row' = "active"
  /\ pc' = "start"
  /\ UNCHANGED <<model, outcome, current, visited, steps, tokens, saving, trow, branches,
                 registered, ran, life, bus, sched, hold, admin, updating, finishing,
                 detached, tokensOld, calls, admins, crashes>>

(* Mutant of Execute: the loop only runs while the engine does. *)
Execute_WhileRunning ==
  /\ life = "running"
  /\ Begin \/ SaveToken(tokensOld) \/ Visit \/ Perform \/ Register
  /\ row' = Saved(inst)
  /\ UNCHANGED <<life, bus, sched, hold, admin, inst, listed, updating, finishing,
                 detached, tokensOld, calls, admins, crashes>>

(* A step of execute(); where it saves the instance, the row is the manager's. *)
Execute ==
  /\ Begin \/ SaveToken(tokensOld) \/ Visit \/ Perform \/ Register
  /\ row' = Saved(inst)
  /\ UNCHANGED <<life, bus, sched, hold, admin, inst, listed, updating, finishing,
                 detached, tokensOld, calls, admins, crashes>>

(* The end of BPMNEngine.execute_instance: a completed execution completes the
   instance, a failed one fails it; either raises if the state does not allow
   it, and the coroutine is over. *)
Finish ==
  /\ pc = "end" /\ saving = 0 /\ ~finishing
  /\ LET to == IF outcome = "completed" THEN "completed" ELSE "failed"
     IN  IF outcome \in {"completed", "raised"} /\ Allowed(inst, to)
         THEN /\ inst' = to /\ row' = Saved(to)
              /\ updating' = updating \cup {<<"executor", to>>}
              /\ finishing' = TRUE /\ UNCHANGED pc
         ELSE pc' = "done" /\ UNCHANGED <<inst, row, updating, finishing>>
  /\ UNCHANGED <<model, outcome, current, visited, steps, tokens, saving, trow, branches,
                 registered, ran, life, bus, sched, hold, admin, listed, detached,
                 tokensOld, calls, admins, crashes>>

(* The operator's update_instance_state, up to the suspension in the save. *)
Update(to) ==
  /\ inst # "none" /\ calls < MaxCalls
  /\ \A u \in updating : u[1] # "operator"
  /\ Allowed(inst, to) \/ to = "active"
  /\ inst' = IF Allowed(inst, to) THEN to ELSE inst
  /\ row' = Saved(inst')
  /\ updating' = updating \cup {<<"operator", to>>}
  /\ calls' = calls + 1
  /\ UNCHANGED <<execVars, life, bus, sched, hold, admin, listed, finishing, detached,
                 tokensOld, admins, crashes>>

(* An update goes on after its saves. *)
Updated(u) ==
  /\ u \in updating
  /\ updating' = updating \ {u}
  /\ listed' = Relist(u[2])
  /\ pc' = IF u[1] = "executor" THEN "done" ELSE pc
  /\ UNCHANGED <<model, outcome, current, visited, steps, tokens, saving, trow, branches,
                 registered, ran, life, bus, sched, hold, admin, inst, row, finishing,
                 detached, tokensOld, calls, admins, crashes>>

(* delete_instance: the subscriptions go; the instance is saved as it is. *)
Delete ==
  /\ row # "none" /\ calls < MaxCalls
  /\ registered' = FALSE
  /\ row' = Saved(IF inst = "none" THEN row ELSE inst)
  /\ calls' = calls + 1
  /\ UNCHANGED <<model, pc, outcome, current, visited, steps, tokens, saving, trow, branches,
                 ran, life, bus, sched, hold, admin, inst, listed, updating, finishing,
                 detached, tokensOld, admins, crashes>>

-----------------------------------------------------------------------------
AdminCall == admin = "none" /\ admins < MaxAdmin /\ admins' = admins + 1

untouched == <<execVars, inst, row, listed, updating, finishing, calls, crashes>>

(* start(): a stopped or failed engine begins to recover; load_all_instances
   comes first and does not suspend.  A paused engine only changes its name. *)
Start ==
  /\ AdminCall
  /\ \/ /\ life \in {"stopped", "error"}
        /\ life' = "starting" /\ admin' = "recovering"
        /\ detached' = (detached \/ inst # "none")
     \/ /\ life = "paused"
        /\ life' = "running" /\ UNCHANGED <<admin, detached>>
  /\ UNCHANGED <<untouched, bus, sched, hold, tokensOld>>

(* The rest of start(): the tokens are loaded, then the bus and the scheduler
   started; an exception on the way leaves the error state and what was started. *)
Recovered ==
  LET reloaded == IF detached THEN DOMAIN trow ELSE {}
      cleared == IF sched THEN hold ELSE FALSE
  IN  /\ admin = "recovering"
      /\ admin' = "none"
      /\ \/ /\ life' \in {"running", "error"}
            /\ bus' = TRUE /\ sched' = TRUE /\ hold' = cleared /\ tokensOld' = reloaded
         \/ /\ life' = "error"
            /\ tokensOld' \in {tokensOld, reloaded}
            /\ UNCHANGED <<bus, sched, hold>>
      /\ UNCHANGED <<untouched, detached, admins>>

(* Mutant of Stop: an engine in the error state is taken to be stopped. *)
Stop_NotFromError ==
  /\ AdminCall
  /\ \/ /\ life \in {"running", "paused"}
        /\ life' = "stopping" /\ admin' = "stopping"
        /\ sched' = FALSE
     \/ /\ life = "error"
        /\ life' = "stopped" /\ UNCHANGED <<admin, sched>>
  /\ UNCHANGED <<untouched, bus, hold, detached, tokensOld>>

(* stop(), up to the suspension in scheduler.stop(). *)
Stop ==
  /\ AdminCall
  /\ life \in {"running", "paused", "error"}
  /\ life' = "stopping" /\ admin' = "stopping"
  /\ sched' = FALSE
  /\ UNCHANGED <<untouched, bus, hold, detached, tokensOld>>

(* The rest of stop(). *)
Stopped ==
  /\ admin = "stopping"
  /\ admin' = "none"
  /\ bus' = FALSE /\ life' = "stopped"
  /\ UNCHANGED <<untouched, sched, hold, detached, tokensOld, admins>>

Pause ==
  /\ AdminCall
  /\ life = "running"
  /\ life' = "paused" /\ hold' = TRUE
  /\ UNCHANGED <<untouched, bus, sched, admin, detached, tokensOld>>

Resume ==
  /\ AdminCall
  /\ life = "paused"
  /\ life' = "running" /\ hold' = FALSE
  /\ UNCHANGED <<untouched, bus, sched, admin, detached, tokensOld>>

(* The process dies; what remains is in the repositories, and a new engine is
   built on them. *)
Crash ==
  /\ crashes < MaxCrashes /\ crashes' = crashes + 1
  /\ life' = "stopped" /\ bus' = FALSE /\ sched' = FALSE /\ hold' = FALSE /\ admin' = "none"
  /\ inst' = "none" /\ listed' = {} /\ updating' = {} /\ finishing' = FALSE
  /\ pc' = IF pc = "idle" THEN "idle" ELSE "dead"
  /\ outcome' = "none" /\ current' = model.start /\ visited' = {} /\ steps' = 0
  /\ branches' = [n \in Nodes |-> {}] /\ ran' = {}
  /\ tokens' = trow /\ saving' = 0 /\ tokensOld' = {}
  /\ UNCHANGED <<model, trow, registered, row, detached, calls, admins>>

Updates == {"operator", "executor"} \X (States \ {"none"})

Next ==
  \/ StartInstance \/ Execute \/ Finish
  \/ \E to \in {"suspended", "active", "terminated"} : Update(to)
  \/ \E u \in Updates : Updated(u)
  \/ Delete
  \/ Start \/ Recovered \/ Stop \/ Stopped \/ Pause \/ Resume
  \/ Crash

Spec == Init /\ [][Next]_vars

(* Saves and activities end, and the event loop runs what is ready.  Nothing is
   assumed of operators and administrators. *)
FairSpec ==
  /\ Spec
  /\ WF_vars(Execute) /\ WF_vars(Finish)
  /\ \A u \in Updates : WF_vars(Updated(u))

-----------------------------------------------------------------------------
TypeOK ==
  /\ life \in {"stopped", "starting", "running", "paused", "stopping", "error"}
  /\ bus \in BOOLEAN /\ sched \in BOOLEAN /\ hold \in BOOLEAN
  /\ admin \in {"none", "recovering", "stopping"}
  /\ inst \in States /\ row \in States
  /\ listed \subseteq {"active", "suspended"}
  /\ updating \subseteq Updates
  /\ finishing \in BOOLEAN /\ detached \in BOOLEAN
  /\ pc \in {"idle", "start", "visit", "perform", "register", "end", "done", "dead"}
  /\ outcome \in {"none", "completed", "waiting", "stalled", "raised"}
  /\ steps \in 0..Limit
  /\ saving \in 0..Len(tokens) /\ tokensOld \subseteq DOMAIN trow
  /\ Len(trow) <= Len(tokens)

(* A completed or terminated instance never changes again, in memory or in its
   row: not by an execution that ends after the operator has terminated the
   instance, by a late resume, a delete, or a restart. *)
FinalIsFinal ==
  [][/\ row \in Final => row' = row
     /\ inst \in Final => inst' \in {inst, "none"}]_vars

(* When no update is under way, an instance that is active or suspended is in
   exactly that set of the engine, although updates of the operator and of the
   execution change the sets only after their saves. *)
SetsFollow ==
  updating = {} /\ inst \in {"active", "suspended"} => listed = {inst}

(* A subscription never exists without a saved token that waits for it, also if
   the process dies at any point: the tokens are saved before the subscription
   is made.  (Unless the engine was restarted under the execution.) *)
SubscriptionHasToken ==
  registered /\ ~detached => \E i \in DOMAIN trow : trow[i].state = "waiting"

(* A stopped engine has stopped its bus and scheduler, a running or paused one
   runs them, and a paused one holds the scheduler, also after starts that
   failed half way. *)
ServicesFollow ==
  /\ life = "stopped" => ~bus /\ ~sched
  /\ life \in {"running", "paused"} => bus /\ sched
  /\ life = "paused" => hold

(* Every execution ends, also one that is led in circles by gateways. *)
ExecutionEnds == pc \notin {"idle", "done", "dead"} ~> pc \in {"done", "dead"}

(* "Handles runtime state recovery on engine restart" (RecoveryService): a
   running engine knows the instance, in the state that its row has. *)
RecoveryRestores == life = "running" /\ updating = {} => inst = row
=============================================================================
