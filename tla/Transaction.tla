---------------------------- MODULE Transaction ----------------------------
(***************************************************************************)
(* A TransactionScope and the TransactionManager that owns it              *)
(* (engines/orchestration/core/transaction.py, transaction_states.py):     *)
(* two-phase commit over participants, rollback, and compensation.         *)
(*                                                                         *)
(* prepare, commit and rollback are coroutines over one lifecycle state.   *)
(* They suspend only in a participant's or a compensation's handler; what  *)
(* runs between two suspensions is one step.  pc[c] is the suspended call  *)
(* of caller c: the handler in flight is that of Head(todo).  A missing or *)
(* synchronous handler is one that answers at once.  A suspended call may   *)
(* also be cancelled; no except clause of the two files catches that.      *)
(***************************************************************************)
EXTENDS Integers, Sequences, FiniteSetsExt

CONSTANTS Participants,   \* participant_id values
          Compensations,  \* action_id values
          Order,          \* the order every compensation is registered with
          Callers,        \* coroutines that may call the transaction at once
          JoinWhile       \* lifecycle states in which participants are added

Life == {"active", "preparing", "prepared", "committing", "committed",
         "rolling_back", "rolled_back", "failed"}

ASSUME TransactionAssumption ==
  /\ Order \in [Compensations -> Int]
  /\ JoinWhile \subseteq Life

VARIABLES life,      \* _lifecycle_state
          roster,    \* the keys of participants, in the order of the dict
          prepared,  \* participants whose is_prepared is set
          actions,   \* compensation_actions
          executed,  \* compensations whose executed is set
          pc,        \* the suspended call of every caller
          scope,     \* the transaction() context manager, if one is used
          known,     \* the manager still has the transaction
          live,      \* the transaction is in active_transactions
          counted,   \* which of the manager's totals were incremented
          effect,    \* history: what a participant's handlers last did
          runs,      \* history: successful runs of a compensation, up to 2
          cancelled  \* history: a suspended call has been cancelled

vars == <<life, roster, prepared, actions, executed, pc, scope, known, live,
          counted, effect, runs, cancelled>>

(* A suspended loop over handlers.  "then" is what follows it: the return to
   the caller, the commit phase, or the two rollbacks of a failed commit (the
   one of _do_commit and the one of PreparedState.commit).  "size" is the size
   of the dict the loop iterates over; "by" is the operation that was called. *)
Loop(op, todo, then, by) ==
  [op |-> op, todo |-> todo, size |-> Len(roster), then |-> then, by |-> by]
Idle == [op |-> "idle", todo |-> <<>>, size |-> 0, then |-> "return", by |-> "none"]

Frame == [op : {"idle", "prepare", "commit", "rollback", "compensate"},
          todo : Seq(Participants \cup Compensations),
          size : Nat,
          then : {"return", "commit", "inner", "outer"},
          by : {"none", "prepare", "commit", "rollback", "exit", "unwind"}]

TypeOK ==
  /\ life \in Life
  /\ roster \in Seq(Participants) /\ IsInjective(roster)
  /\ prepared \subseteq Range(roster)
  /\ actions \in Seq(Compensations) /\ IsInjective(actions)
  /\ executed \subseteq Range(actions)
  /\ pc \in [Callers -> Frame]
  /\ scope \in {"none", "open", "closing", "closed"}
  /\ known \in BOOLEAN /\ live \in BOOLEAN
  /\ counted \subseteq {"committed", "rolled_back", "failed"}
  /\ effect \in [Participants -> {"none", "committed", "undone"}]
  /\ runs \in [Compensations -> 0..2]
  /\ cancelled \in BOOLEAN

(* begin_transaction, or entering the transaction() context manager. *)
Init ==
  /\ life = "active" /\ roster = <<>> /\ prepared = {}
  /\ actions = <<>> /\ executed = {}
  /\ pc = [c \in Callers |-> Idle]
  /\ scope \in {"none", "open"}
  /\ known = TRUE /\ live = TRUE /\ counted = {}
  /\ effect = [p \in Participants |-> "none"]
  /\ runs = [k \in Compensations |-> 0]
  /\ cancelled = FALSE

-----------------------------------------------------------------------------
(* How far a call gets before it suspends or ends: the lifecycle state it
   leaves, the frame it suspends in, and what it returns. *)
Suspend(l, frame) == [life |-> l, frame |-> frame, ret |-> "none"]
Return(l, r) == [life |-> l, frame |-> Idle, ret |-> r]

(* sorted(actions, key=order, reverse=True): stable also when reversed.  The
   action at place n has n - 1 others before it. *)
SortedActions ==
  LET Before(i, j) == \/ Order[actions[i]] > Order[actions[j]]
                      \/ (Order[actions[i]] = Order[actions[j]] /\ i < j)
      Place(j) == Cardinality({i \in DOMAIN actions : Before(i, j)}) + 1
  IN  [n \in DOMAIN actions |-> actions[CHOOSE j \in DOMAIN actions : Place(j) = n]]

(* The loop over them, from the next action that has not been executed. *)
Skip(todo, done) ==
  LET open == {i \in DOMAIN todo : todo[i] \notin done}
  IN  IF open = {} THEN <<>> ELSE SubSeq(todo, Min(open), Len(todo))

EnterCommit(by) ==
  IF roster = <<>> THEN Return("committed", "true")
  ELSE Suspend("committing", Loop("commit", roster, "return", by))

AfterPrepare(ok, then, by) ==
  CASE ~ok -> Return("failed", "false")
    [] ok /\ then = "return" -> Return("prepared", "true")
    [] ok /\ then = "commit" -> EnterCommit(by)

EnterPrepare(then, by) ==
  IF roster = <<>> THEN AfterPrepare(TRUE, then, by)
  ELSE Suspend("preparing", Loop("prepare", roster, then, by))

(* The rollback that PreparedState.commit runs after _do_commit has failed,
   whatever the rollback of _do_commit itself has done. *)
SecondRollback(by) == Suspend("rolling_back", Loop("rollback", roster, "outer", by))

(* Mutant of AfterRollback: the second rollback of a failed commit is not told
   from the first. *)
AfterRollback_Again(ok, then, by) ==
  IF then = "return"
  THEN Return(IF ok THEN "rolled_back" ELSE "failed", IF ok THEN "true" ELSE "false")
  ELSE SecondRollback(by)

AfterRollback(ok, then, by) ==
  LET l == IF ok THEN "rolled_back" ELSE "failed"
  IN CASE then = "return" -> Return(l, IF ok THEN "true" ELSE "false")
       [] then = "inner" -> SecondRollback(by)
       [] then = "outer" -> Return(l, "false")

EnterCompensation(l, then, by) ==
  LET todo == Skip(SortedActions, executed)
  IN  IF todo = <<>> THEN AfterRollback(TRUE, then, by)
      ELSE Suspend(l, Loop("compensate", todo, then, by))

EnterRollback(then, by) ==
  IF roster = <<>> THEN EnterCompensation("rolling_back", then, by)
  ELSE Suspend("rolling_back", Loop("rollback", roster, then, by))

(* Mutant of CommitFailed: the failure is reported, nothing is rolled back. *)
CommitFailed_NoRollback(by) == Return("failed", "false")

(* _do_commit after an exception: self.rollback() depends on the state. *)
CommitFailed(by) ==
  IF life \in {"rolling_back", "rolled_back", "committed"} THEN SecondRollback(by)
  ELSE EnterRollback("inner", by)

(* The three operations, dispatched on the lifecycle state. *)
PrepareCall(then, by) ==
  CASE life \in {"active", "preparing", "failed"} -> EnterPrepare(then, by)
    [] life = "prepared" -> Return(life, "true")
    [] OTHER -> Return(life, "raise")

(* Mutant of RollbackCall: a committed transaction is rolled back like any
   other. *)
RollbackCall_Committed(by) ==
  CASE life = "rolling_back" -> Return(life, "true")
    [] life = "rolled_back" -> Return(life, "false")
    [] OTHER -> EnterRollback("return", by)
RollbackCall(by) ==
  CASE life = "rolling_back" -> Return(life, "true")
    [] life \in {"committed", "rolled_back"} -> Return(life, "false")
    [] OTHER -> EnterRollback("return", by)

CommitCall(by) ==
  CASE life = "active" -> EnterPrepare("commit", by)
    [] life = "prepared" -> EnterCommit(by)
    [] life \in {"committing", "committed"} -> Return(life, "true")
    [] life = "failed" -> EnterRollback("return", by)
    [] OTHER -> Return(life, "raise")

(* What the manager does when the call it awaits returns. *)
Totals(by, ret) ==
  CASE by = "commit" /\ ret = "true" -> {"committed"}
    [] by = "rollback" /\ ret = "true" -> {"rolled_back"}
    [] by \in {"commit", "rollback"} /\ ret = "false" -> {"failed"}
    [] OTHER -> {}

Apply(c, o, by) ==
  /\ life' = o.life
  /\ pc' = [pc EXCEPT ![c] = o.frame]
  /\ counted' = counted \cup Totals(by, o.ret)
  /\ IF by \in {"exit", "unwind"}
     THEN /\ scope' = IF o.ret = "none" THEN "closing" ELSE "closed"
          /\ live' = (live /\ o.ret = "none")
     ELSE /\ live' = (live /\ ~(by \in {"commit", "rollback"} /\ o.ret = "true"))
          /\ UNCHANGED scope

-----------------------------------------------------------------------------
(* The code accepts a participant at any time; JoinWhile says when callers add
   one.  Every participant gets a fresh id (participant_id=None). *)
AddParticipant(p) ==
  /\ life \in JoinWhile
  /\ p \notin Range(roster)
  /\ roster' = Append(roster, p)
  /\ UNCHANGED <<life, prepared, actions, executed, pc, scope, known, live, counted, effect, runs, cancelled>>

AddCompensation(k) ==
  /\ k \notin Range(actions)
  /\ actions' = Append(actions, k)
  /\ UNCHANGED <<life, roster, prepared, executed, pc, scope, known, live, counted, effect, runs, cancelled>>

CallVars == <<roster, prepared, actions, executed, known, effect, runs, cancelled>>

Prepare(c) ==
  /\ pc[c] = Idle
  /\ Apply(c, PrepareCall("return", "prepare"), "prepare")
  /\ UNCHANGED CallVars

CommitTransaction(c) ==
  /\ pc[c] = Idle
  /\ known
  /\ Apply(c, CommitCall("commit"), "commit")
  /\ UNCHANGED CallVars

RollbackTransaction(c) ==
  /\ pc[c] = Idle
  /\ known
  /\ Apply(c, RollbackCall("rollback"), "rollback")
  /\ UNCHANGED CallVars

(* Leaving the context manager: the body has returned, so commit; it has
   raised, or commit has, so roll back; or it has been cancelled, and then
   neither happens, for CancelledError is no Exception. *)
ScopeExit(c) ==
  /\ pc[c] = Idle
  /\ scope = "open"
  /\ LET o == CommitCall("exit")
     IN  \/ o.ret # "raise" /\ Apply(c, o, "exit")
         \/ Apply(c, RollbackCall("unwind"), "unwind")
         \/ Apply(c, Return(life, "cancelled"), "unwind")
  /\ UNCHANGED CallVars

(* The next step of a loop after a handler's answer: RuntimeError when the dict
   has changed its size, the next handler, or the end of the loop. *)
Resized(f) == Len(roster) # f.size
Continue(f) == Suspend(life, [f EXCEPT !.todo = Tail(@)])

(* Mutant of PrepareAnswer: the loop runs over a copy of the participants. *)
PrepareAnswer_Copy(c, ok) ==
  LET f == pc[c]
  IN  /\ f.op = "prepare"
      /\ prepared' = IF ok THEN prepared \cup {Head(f.todo)} ELSE prepared
      /\ Apply(c, IF ok /\ Len(f.todo) > 1 THEN Continue(f)
                  ELSE AfterPrepare(ok, f.then, f.by), f.by)
      /\ UNCHANGED <<roster, actions, executed, known, effect, runs, cancelled>>

PrepareAnswer(c, ok) ==
  LET f == pc[c]
  IN  /\ f.op = "prepare"
      /\ prepared' = IF ok THEN prepared \cup {Head(f.todo)} ELSE prepared
      /\ Apply(c, IF ok /\ ~Resized(f) /\ Len(f.todo) > 1 THEN Continue(f)
                  ELSE AfterPrepare(ok /\ ~Resized(f), f.then, f.by), f.by)
      /\ UNCHANGED <<roster, actions, executed, known, effect, runs, cancelled>>

CommitAnswer(c, ok) ==
  LET f == pc[c]
  IN  /\ f.op = "commit"
      /\ effect' = IF ok THEN [effect EXCEPT ![Head(f.todo)] = "committed"] ELSE effect
      /\ Apply(c, CASE ~ok \/ Resized(f) -> CommitFailed(f.by)
                    [] ok /\ ~Resized(f) /\ Len(f.todo) > 1 -> Continue(f)
                    [] OTHER -> Return("committed", "true"), f.by)
      /\ UNCHANGED <<roster, prepared, actions, executed, known, runs, cancelled>>

(* An exception of a rollback handler is logged and the loop goes on. *)
RollbackAnswer(c) ==
  LET f == pc[c]
  IN  /\ f.op = "rollback"
      /\ effect' = [effect EXCEPT ![Head(f.todo)] = "undone"]
      /\ Apply(c, CASE Resized(f) -> AfterRollback(FALSE, f.then, f.by)
                    [] ~Resized(f) /\ Len(f.todo) > 1 -> Continue(f)
                    [] OTHER -> EnterCompensation(life, f.then, f.by), f.by)
      /\ UNCHANGED <<roster, prepared, actions, executed, known, runs, cancelled>>

(* Mutant of CompensationAnswer: executed is never set. *)
CompensationAnswer_Unmarked(c, ok) ==
  LET f == pc[c]
      k == Head(f.todo)
      rest == Tail(f.todo)
  IN  /\ f.op = "compensate"
      /\ runs' = IF ok THEN [runs EXCEPT ![k] = IF @ = 2 THEN 2 ELSE @ + 1] ELSE runs
      /\ Apply(c, IF rest = <<>> THEN AfterRollback(TRUE, f.then, f.by)
                  ELSE Suspend(life, [f EXCEPT !.todo = rest]), f.by)
      /\ UNCHANGED <<roster, prepared, actions, executed, known, effect, cancelled>>

(* Only a compensation that succeeds is marked; an exception is logged.  The
   list was copied when it was sorted. *)
CompensationAnswer(c, ok) ==
  LET f == pc[c]
      k == Head(f.todo)
      rest == Skip(Tail(f.todo), executed')
  IN  /\ f.op = "compensate"
      /\ executed' = IF ok THEN executed \cup {k} ELSE executed
      /\ runs' = IF ok THEN [runs EXCEPT ![k] = IF @ = 2 THEN 2 ELSE @ + 1] ELSE runs
      /\ Apply(c, IF rest = <<>> THEN AfterRollback(TRUE, f.then, f.by)
                  ELSE Suspend(life, [f EXCEPT !.todo = rest]), f.by)
      /\ UNCHANGED <<roster, prepared, actions, known, effect, cancelled>>

(* The handler that is running, and with it the call, ends with CancelledError:
   the except clauses catch Exception only, so the lifecycle state stays what
   the call had made it and nothing is rolled back or counted. *)
CallCancelled(c) ==
  /\ pc[c] # Idle
  /\ Apply(c, Return(life, "cancelled"), pc[c].by)
  /\ cancelled' = TRUE
  /\ UNCHANGED <<roster, prepared, actions, executed, known, effect, runs>>

Cleanup ==
  /\ known
  /\ life \in {"committed", "rolled_back"}
  /\ known' = FALSE
  /\ UNCHANGED <<life, roster, prepared, actions, executed, pc, scope, live, counted, effect, runs, cancelled>>

HandlerAnswers(c) ==
  \/ \E ok \in BOOLEAN : PrepareAnswer(c, ok) \/ CommitAnswer(c, ok) \/ CompensationAnswer(c, ok)
  \/ RollbackAnswer(c)

Next ==
  \/ \E p \in Participants : AddParticipant(p)
  \/ \E k \in Compensations : AddCompensation(k)
  \/ \E c \in Callers :
       \/ Prepare(c) \/ CommitTransaction(c) \/ RollbackTransaction(c) \/ ScopeExit(c)
       \/ HandlerAnswers(c) \/ CallCancelled(c)
  \/ Cleanup

Spec == Init /\ [][Next]_vars

(* Handlers are assumed to end: they answer or are cancelled. *)
FairSpec == Spec /\ \A c \in Callers : WF_vars(HandlerAnswers(c) \/ CallCancelled(c))

-----------------------------------------------------------------------------
(* Two-phase commit: no commit handler has run, and none is running, before
   every participant has prepared.  A participant that joins while the prepare
   loop is suspended makes the loop fail, so it cannot slip through. *)
CommitNeedsAllPrepared ==
  (\E p \in Participants : effect[p] = "committed") \/ (\E c \in Callers : pc[c].op = "commit")
    => Range(roster) \subseteq prepared

(* Atomicity as far as the coordinator can give it: at rest, either every
   participant's commit handler has succeeded and the state is committed, or
   none has, or the rollback handler of each has been called since.  The only
   exception are the states committing and rolling_back, in which a transaction
   rests only when a call was cancelled there; a rollback that runs to its end
   repairs the first. *)
AllOrNothing ==
  (\A c \in Callers : pc[c] = Idle) =>
    CASE life = "committed" -> \A p \in Range(roster) : effect[p] = "committed"
      [] life \in {"committing", "rolling_back"} -> cancelled
      [] OTHER -> \A p \in Range(roster) : effect[p] # "committed"

(* The outcome is final: nothing leaves committed or rolled_back.  And unless a
   call has been cancelled the manager's totals agree with it: they never count
   both for one transaction, and count a rollback only when it has come to its
   end.  (After a cancelled commit, commit returns True and counts, and so does
   the rollback that follows.) *)
OutcomeIsFinal ==
  [][/\ (life \in {"committed", "rolled_back"}) => life' = life
     /\ \/ cancelled'
        \/ /\ ~({"committed", "rolled_back"} \subseteq counted')
           /\ "rolled_back" \in counted' => life' = "rolled_back"]_vars

(* A compensation that has succeeded is never run again, although a failed
   commit rolls back twice and a failed transaction may be rolled back again. *)
CompensatedOnce == \A k \in Compensations : runs[k] <= 1

(* Every call returns once the handlers answer. *)
CallsReturn == \A c \in Callers : pc[c] # Idle ~> pc[c] = Idle
=============================================================================
