------------------------- MODULE TransactionProofs -------------------------
(***************************************************************************)
(* Proofs about Transaction, for any participants, compensations and       *)
(* orders.  As in the run, one caller uses the transaction at a time and   *)
(* participants join no later than during prepare: two callers can commit  *)
(* what was rolled back, and a later participant is committed unprepared.  *)
(* Type correctness and the progress of calls, at the end, need neither    *)
(* assumption.                                                             *)
(***************************************************************************)
EXTENDS Transaction, SequenceTheorems, FiniteSetTheorems, WellFoundedInduction, TLAPS

OneCaller == \E c : Callers = {c}
JoinsEarly == JoinWhile \subseteq {"active", "preparing"}

-----------------------------------------------------------------------------
(* Sequences whose elements are of no particular set. *)

Elems(s) == {s[i] : i \in DOMAIN s}
IsSeq(s) == s \in Seq(Elems(s))

LEMMA MakesSeq ==
  ASSUME NEW n \in Nat, NEW s, s \in [1..n -> Elems(s)]
  PROVE  IsSeq(s) /\ Len(s) = n /\ DOMAIN s = 1..n
<1>1. s \in Seq(Elems(s))
  BY SeqDef, Zenon
<1>2. DOMAIN s = 1..n /\ DOMAIN s = 1..Len(s) /\ Len(s) \in Nat
  BY <1>1, LenProperties
<1>. QED  BY <1>1, <1>2 DEF IsSeq

LEMMA TailIsSeq ==
  ASSUME NEW s, IsSeq(s), s # <<>>
  PROVE  IsSeq(Tail(s))
<1>. DEFINE t == Tail(s)
<1>1. t \in Seq(Elems(s))
  BY HeadTailProperties DEF IsSeq
<1>. HIDE DEF t
<1>2. Len(t) \in Nat /\ t \in [1..Len(t) -> Elems(s)]
  BY <1>1, LenProperties, Zenon
<1>3. t \in [1..Len(t) -> Elems(t)]
  BY <1>2, Zenon DEF Elems
<1>4. IsSeq(t)
  BY <1>2, <1>3, MakesSeq
<1>. QED  BY <1>4 DEF t

(* The sorted list of compensations is a list. *)
LEMMA SortedIsSeq ==
  ASSUME actions \in Seq(Compensations)
  PROVE  IsSeq(SortedActions)
<1>1. Len(actions) \in Nat /\ DOMAIN actions = 1..Len(actions)
  BY LenProperties
<1>2. DOMAIN SortedActions = DOMAIN actions /\ SortedActions = [i \in DOMAIN actions |-> SortedActions[i]]
  BY DEF SortedActions
<1>3. SortedActions \in [1..Len(actions) -> Elems(SortedActions)]
  BY <1>1, <1>2, Zenon DEF Elems
<1>. QED  BY <1>1, <1>3, MakesSeq

(* A nonempty set of naturals has the minimum that Min chooses. *)
LEMMA MinExists ==
  ASSUME NEW S, S \subseteq Nat, S # {}
  PROVE  Min(S) \in S
<1>. DEFINE R == OpToRel(<, Nat)
<1>1. IsWellFoundedOn(R, Nat)
  BY NatLessThanWellFounded, Zenon
<1>2. R = {ss \in Nat \X Nat : ss[1] < ss[2]}
  BY Zenon DEF OpToRel
<1>. HIDE DEF R
<1>3. PICK x \in S : \A y \in S : ~(<<y, x>> \in R)
  BY <1>1, WFMin, Zenon
<1>4. ASSUME NEW y \in S
      PROVE  x <= y
  <2>1. <<y, x>> \in Nat \X Nat /\ <<y, x>>[1] = y /\ <<y, x>>[2] = x /\ y \in Nat /\ x \in Nat
    OBVIOUS
  <2>2. ~(y < x)
    BY <1>2, <1>3, <2>1, Zenon
  <2>. QED  BY <2>1, <2>2
<1>. QED  BY <1>4, Zenon DEF Min

(* What is left of the loop over the compensations starts with one that has
   not been executed. *)
LEMMA SkipsDone ==
  ASSUME NEW todo, IsSeq(todo), NEW done
  PROVE  /\ IsSeq(Skip(todo, done))
         /\ Skip(todo, done) # <<>> => Head(Skip(todo, done)) \notin done
<1>. DEFINE open == {i \in DOMAIN todo : todo[i] \notin done}
            m == Min(open)
            s == SubSeq(todo, m, Len(todo))
<1>1. CASE open = {}
  BY <1>1 DEF Skip, IsSeq, Elems
<1>2. CASE open # {}
  <2>1. Len(todo) \in Nat /\ DOMAIN todo = 1..Len(todo)
    BY LenProperties DEF IsSeq
  <2>2. m \in open
    BY <1>2, <2>1, MinExists
  <2>3. m \in 1..Len(todo) /\ todo[m] \notin done
    BY <2>1, <2>2
  <2>. HIDE DEF open, m
  <2>4. /\ s \in Seq(Elems(todo)) /\ Len(s) = Len(todo) - m + 1
        /\ \A i \in 1..(Len(todo) - m + 1) : s[i] = todo[m + i - 1]
    BY <2>1, <2>3, SubSeqProperties DEF IsSeq
  <2>5. Len(s) \in Nat /\ DOMAIN s = 1..Len(s)
    BY <2>4, LenProperties
  <2>. HIDE DEF s
  <2>6. s \in [1..Len(s) -> Elems(s)]
    BY <2>4, <2>5, LenProperties, Zenon DEF Elems
  <2>7. IsSeq(s)
    BY <2>5, <2>6, MakesSeq
  <2>8. s # <<>> /\ Head(s) = s[1] /\ s[1] = todo[m]
    BY <2>1, <2>3, <2>4, HeadTailProperties
  <2>9. Skip(todo, done) = s
    BY <1>2, Zenon DEF Skip, open, m, s
  <2>. QED  BY <2>3, <2>7, <2>8, <2>9
<1>. QED  BY <1>1, <1>2

-----------------------------------------------------------------------------
(* The inductive invariant.  It speaks of a call in lifecycle state l that is
   suspended in frame f, of the effects E of the participants, of the prepared
   ones P and of the executed compensations X. *)

Positions == 1..Len(roster)
AllPrepared(P) == \A i \in Positions : roster[i] \in P
AllCommitted(E) == \A i \in Positions : E[roster[i]] = "committed"
NoneCommitted(E) == \A p \in Participants : E[p] # "committed"

IsFrame(f) ==
  /\ f = [op |-> f.op, todo |-> f.todo, size |-> f.size, then |-> f.then, by |-> f.by]
  /\ f.op \in {"idle", "prepare", "commit", "rollback", "compensate"}

(* A loop over participants: what is to do is the end of the roster as it was
   when the loop began, and Past is what is done. *)
Aligned(f) ==
  /\ f.todo \in Seq(Participants) /\ Len(f.todo) >= 1
  /\ f.size \in Nat /\ Len(f.todo) <= f.size /\ f.size <= Len(roster)
  /\ \A j \in 1..Len(f.todo) : f.todo[j] = roster[f.size - Len(f.todo) + j]
Past(f) == 1..(f.size - Len(f.todo))

(* Only a cancelled call leaves the transaction at rest in committing or
   rolling_back. *)
AtRest(l, E, P) ==
  /\ l \in Life
  /\ l \in {"prepared", "committing", "committed"} => AllPrepared(P)
  /\ l \in {"committing", "rolling_back"} => cancelled
  /\ l = "committed" => AllCommitted(E)
  /\ l = "rolling_back" => NoneCommitted(E) \/ AllPrepared(P)
  /\ l \notin {"committing", "committed", "rolling_back"} => NoneCommitted(E)

Preparing(l, f, E, P) ==
  /\ l = "preparing" /\ Aligned(f) /\ NoneCommitted(E)
  /\ \A j \in Past(f) : roster[j] \in P
  /\ \/ f.then = "return" /\ f.by = "prepare"
     \/ f.then = "commit" /\ f.by \in {"commit", "exit"}

Committing(l, f, E, P) ==
  /\ l = "committing" /\ Aligned(f) /\ f.size = Len(roster) /\ AllPrepared(P)
  /\ \A j \in Past(f) : E[roster[j]] = "committed"
  /\ f.by \in {"commit", "exit"}

(* A rollback undoes what is prepared, if it has anything to undo. *)
RollingBack(l, f, E, P) ==
  /\ l = "rolling_back" /\ Aligned(f) /\ f.size = Len(roster)
  /\ NoneCommitted(E) \/ AllPrepared(P)
  /\ \A j \in Past(f) : E[roster[j]] # "committed"
  /\ f.then \in {"return", "inner", "outer"}

Compensating(l, f, E, X) ==
  /\ l = "rolling_back" /\ NoneCommitted(E)
  /\ IsSeq(f.todo) /\ f.todo # <<>> /\ Head(f.todo) \notin X
  /\ f.then \in {"return", "inner", "outer"}
  /\ f.then = "inner" => roster # <<>>

Sound(l, f, E, P, X) ==
  /\ IsFrame(f)
  /\ f.op = "idle" => f = Idle /\ AtRest(l, E, P)
  /\ f.op = "prepare" => Preparing(l, f, E, P)
  /\ f.op = "commit" => Committing(l, f, E, P)
  /\ f.op = "rollback" => RollingBack(l, f, E, P)
  /\ f.op = "compensate" => Compensating(l, f, E, X)

(* Unless a call was cancelled, the totals, n, agree with the outcome. *)
Counts(l, n) ==
  \/ cancelled
  \/ /\ "committed" \in n => l \in {"committed", "rolled_back"}
     /\ "rolled_back" \in n => l = "rolled_back"
     /\ ~({"committed", "rolled_back"} \subseteq n)

Shape ==
  /\ roster \in Seq(Participants) /\ actions \in Seq(Compensations)
  /\ DOMAIN pc = Callers
  /\ effect \in [Participants -> {"none", "committed", "undone"}]
  /\ runs \in [Compensations -> 0..2]

(* Only a participant on the roster has committed. *)
OnRoster == \A p \in Participants : effect[p] = "committed" => \E i \in Positions : roster[i] = p

(* executed is set by the first run that succeeds. *)
RunsMarked == \A k \in Compensations : runs[k] = IF k \in executed THEN 1 ELSE 0

IInv ==
  /\ Shape /\ OnRoster /\ RunsMarked /\ Counts(life, counted)
  /\ \A c \in Callers : Sound(life, pc[c], effect, prepared, executed)

-----------------------------------------------------------------------------
(* What the operations reach before they suspend or return: outcome o of a call
   of by keeps the invariant. *)

Good(o, by, E, P, X) ==
  /\ Sound(o.life, o.frame, E, P, X)
  /\ Counts(o.life, counted \cup Totals(by, o.ret))

(* No total has been incremented yet that would fix the outcome. *)
Fresh == cancelled \/ ("committed" \notin counted /\ "rolled_back" \notin counted)

LEMMA ReturnGood ==
  ASSUME NEW l, NEW r, NEW by, NEW E, NEW P, NEW X,
         AtRest(l, E, P), Counts(l, counted \cup Totals(by, r))
  PROVE  Good(Return(l, r), by, E, P, X)
<1>1. Return(l, r).life = l /\ Return(l, r).frame = Idle /\ Return(l, r).ret = r
  BY DEF Return
<1>2. IsFrame(Idle) /\ Idle.op = "idle"
  BY DEF IsFrame, Idle
<1>3. Sound(l, Idle, E, P, X)
  BY <1>2 DEF Sound
<1>. QED  BY <1>1, <1>3, Zenon DEF Good

LEMMA SuspendGood ==
  ASSUME NEW l, NEW f, NEW by, NEW E, NEW P, NEW X,
         Sound(l, f, E, P, X), Fresh
  PROVE  Good(Suspend(l, f), by, E, P, X)
<1>1. Suspend(l, f).life = l /\ Suspend(l, f).frame = f /\ Suspend(l, f).ret = "none"
  BY DEF Suspend
<1>2. Totals(by, "none") = {}
  BY DEF Totals
<1>3. Counts(l, counted \cup {})
  BY DEF Counts, Fresh
<1>. QED  BY <1>1, <1>2, <1>3, Zenon DEF Good

LEMMA LoopFields ==
  ASSUME NEW op, NEW todo, NEW then, NEW by
  PROVE  LET f == Loop(op, todo, then, by)
         IN  /\ f.op = op /\ f.todo = todo /\ f.size = Len(roster)
             /\ f.then = then /\ f.by = by
             /\ f = [op |-> f.op, todo |-> f.todo, size |-> f.size, then |-> f.then, by |-> f.by]
BY DEF Loop

(* A loop that begins has the whole roster to do. *)
LEMMA LoopAligned ==
  ASSUME roster \in Seq(Participants), roster # <<>>,
         NEW f, f.todo = roster, f.size = Len(roster)
  PROVE  Aligned(f) /\ Past(f) = {}
<1>1. Len(roster) \in Nat /\ Len(roster) >= 1
  BY EmptySeq, LenProperties
<1>. QED  BY <1>1 DEF Aligned, Past

LEMMA EnterCommitGood ==
  ASSUME roster \in Seq(Participants), Fresh, NEW by \in {"commit", "exit"},
         NEW E, NEW P, NEW X, AllPrepared(P)
  PROVE  Good(EnterCommit(by), by, E, P, X)
<1>1. CASE roster = <<>>
  <2>1. AtRest("committed", E, P)
    BY <1>1 DEF AtRest, AllCommitted, AllPrepared, Positions, Life
  <2>2. Counts("committed", counted \cup Totals(by, "true"))
    BY DEF Counts, Totals, Fresh
  <2>3. EnterCommit(by) = Return("committed", "true")
    BY <1>1 DEF EnterCommit
  <2>. QED  BY <2>1, <2>2, <2>3, ReturnGood
<1>2. CASE roster # <<>>
  <2>. DEFINE f == Loop("commit", roster, "return", by)
  <2>1. /\ f.op = "commit" /\ f.todo = roster /\ f.size = Len(roster) /\ f.by = by
        /\ f = [op |-> f.op, todo |-> f.todo, size |-> f.size, then |-> f.then, by |-> f.by]
    BY LoopFields
  <2>2. EnterCommit(by) = Suspend("committing", f)
    BY <1>2 DEF EnterCommit
  <2>. HIDE DEF f
  <2>3. Aligned(f) /\ Past(f) = {}
    BY <1>2, <2>1, LoopAligned
  <2>4. Sound("committing", f, E, P, X)
    BY <2>1, <2>3 DEF Sound, IsFrame, Committing
  <2>. QED  BY <2>2, <2>4, SuspendGood
<1>. QED  BY <1>1, <1>2

(* What a prepare was called for. *)
Purpose(then, by) ==
  \/ then = "return" /\ by = "prepare"
  \/ then = "commit" /\ by \in {"commit", "exit"}

LEMMA AfterPrepareGood ==
  ASSUME roster \in Seq(Participants), Fresh, NEW ok \in BOOLEAN,
         NEW then, NEW by, Purpose(then, by), NEW E, NEW P, NEW X,
         NoneCommitted(E), ok => AllPrepared(P)
  PROVE  Good(AfterPrepare(ok, then, by), by, E, P, X)
<1>1. CASE ~ok
  <2>1. AtRest("failed", E, P)
    BY DEF AtRest, Life
  <2>2. Counts("failed", counted \cup Totals(by, "false"))
    BY DEF Counts, Totals, Fresh
  <2>3. AfterPrepare(ok, then, by) = Return("failed", "false")
    BY <1>1 DEF AfterPrepare
  <2>. QED  BY <2>1, <2>2, <2>3, ReturnGood
<1>2. CASE ok /\ then = "return"
  <2>1. AtRest("prepared", E, P)
    BY <1>2 DEF AtRest, Life
  <2>2. Counts("prepared", counted \cup Totals(by, "true"))
    BY <1>2 DEF Counts, Totals, Fresh, Purpose
  <2>3. AfterPrepare(ok, then, by) = Return("prepared", "true")
    BY <1>2 DEF AfterPrepare
  <2>. QED  BY <2>1, <2>2, <2>3, ReturnGood
<1>3. CASE ok /\ then = "commit"
  <2>1. AfterPrepare(ok, then, by) = EnterCommit(by) /\ by \in {"commit", "exit"}
    BY <1>3 DEF AfterPrepare, Purpose
  <2>. QED  BY <1>3, <2>1, EnterCommitGood, Zenon
<1>. QED  BY <1>1, <1>2, <1>3 DEF Purpose

LEMMA EnterPrepareGood ==
  ASSUME roster \in Seq(Participants), Fresh,
         NEW then, NEW by, Purpose(then, by), NEW E, NEW P, NEW X, NoneCommitted(E)
  PROVE  Good(EnterPrepare(then, by), by, E, P, X)
<1>1. CASE roster = <<>>
  <2>1. AllPrepared(P)
    BY <1>1 DEF AllPrepared, Positions
  <2>2. EnterPrepare(then, by) = AfterPrepare(TRUE, then, by)
    BY <1>1 DEF EnterPrepare
  <2>. QED  BY <2>1, <2>2, AfterPrepareGood, Zenon
<1>2. CASE roster # <<>>
  <2>. DEFINE f == Loop("prepare", roster, then, by)
  <2>1. /\ f.op = "prepare" /\ f.todo = roster /\ f.size = Len(roster) /\ f.then = then /\ f.by = by
        /\ f = [op |-> f.op, todo |-> f.todo, size |-> f.size, then |-> f.then, by |-> f.by]
    BY LoopFields
  <2>2. EnterPrepare(then, by) = Suspend("preparing", f)
    BY <1>2 DEF EnterPrepare
  <2>. HIDE DEF f
  <2>3. Aligned(f) /\ Past(f) = {}
    BY <1>2, <2>1, LoopAligned
  <2>4. Sound("preparing", f, E, P, X)
    BY <2>1, <2>3 DEF Sound, IsFrame, Preparing, Purpose
  <2>. QED  BY <2>2, <2>4, SuspendGood
<1>. QED  BY <1>1, <1>2

(* Every rollback that goes over the roster. *)
LEMMA RollbackLoopGood ==
  ASSUME roster \in Seq(Participants), roster # <<>>, Fresh,
         NEW then \in {"return", "inner", "outer"}, NEW by, NEW E, NEW P, NEW X,
         NoneCommitted(E) \/ AllPrepared(P)
  PROVE  Good(Suspend("rolling_back", Loop("rollback", roster, then, by)), by, E, P, X)
<1>. DEFINE f == Loop("rollback", roster, then, by)
<1>1. /\ f.op = "rollback" /\ f.todo = roster /\ f.size = Len(roster) /\ f.then = then
      /\ f = [op |-> f.op, todo |-> f.todo, size |-> f.size, then |-> f.then, by |-> f.by]
  BY LoopFields
<1>. HIDE DEF f
<1>2. Aligned(f) /\ Past(f) = {}
  BY <1>1, LoopAligned
<1>3. Sound("rolling_back", f, E, P, X)
  BY <1>1, <1>2 DEF Sound, IsFrame, RollingBack
<1>4. Good(Suspend("rolling_back", f), by, E, P, X)
  BY <1>3, SuspendGood
<1>. QED  BY <1>4 DEF f

LEMMA AfterRollbackGood ==
  ASSUME roster \in Seq(Participants), Fresh,
         NEW then \in {"return", "inner", "outer"}, then = "inner" => roster # <<>>,
         NEW by, NEW E, NEW P, NEW X, NoneCommitted(E)
  PROVE  Good(AfterRollback(TRUE, then, by), by, E, P, X)
<1>1. AtRest("rolled_back", E, P)
  BY DEF AtRest, Life
<1>2. CASE then = "return"
  <2>1. Counts("rolled_back", counted \cup Totals(by, "true"))
    BY DEF Counts, Totals, Fresh
  <2>2. AfterRollback(TRUE, then, by) = Return("rolled_back", "true")
    BY <1>2 DEF AfterRollback
  <2>. QED  BY <1>1, <2>1, <2>2, ReturnGood, Zenon
<1>3. CASE then = "inner"
  <2>1. AfterRollback(TRUE, then, by) = Suspend("rolling_back", Loop("rollback", roster, "outer", by))
    BY <1>3 DEF AfterRollback, SecondRollback
  <2>. QED  BY <1>3, <2>1, RollbackLoopGood, Zenon
<1>4. CASE then = "outer"
  <2>1. Counts("rolled_back", counted \cup Totals(by, "false"))
    BY DEF Counts, Totals, Fresh
  <2>2. AfterRollback(TRUE, then, by) = Return("rolled_back", "false")
    BY <1>4 DEF AfterRollback
  <2>. QED  BY <1>1, <2>1, <2>2, ReturnGood, Zenon
<1>. QED  BY <1>2, <1>3, <1>4, Zenon

(* A list of compensations that begins with one not executed. *)
LEMMA CompensateGood ==
  ASSUME Fresh, NEW f, f.op = "compensate", IsFrame(f),
         f.then \in {"return", "inner", "outer"}, f.then = "inner" => roster # <<>>,
         NEW by, NEW E, NEW P, NEW X, NoneCommitted(E),
         IsSeq(f.todo), f.todo # <<>>, Head(f.todo) \notin X
  PROVE  Good(Suspend("rolling_back", f), by, E, P, X)
<1>1. Sound("rolling_back", f, E, P, X)
  BY DEF Sound, Compensating
<1>. QED  BY <1>1, SuspendGood

LEMMA EnterCompensationGood ==
  ASSUME roster \in Seq(Participants), actions \in Seq(Compensations), Fresh,
         NEW then \in {"return", "inner", "outer"}, then = "inner" => roster # <<>>,
         NEW by, NEW E, NEW P, NoneCommitted(E)
  PROVE  Good(EnterCompensation("rolling_back", then, by), by, E, P, executed)
<1>. DEFINE todo == Skip(SortedActions, executed)
            f == Loop("compensate", todo, then, by)
<1>1. IsSeq(todo) /\ (todo # <<>> => Head(todo) \notin executed)
  BY SortedIsSeq, SkipsDone
<1>2. EnterCompensation("rolling_back", then, by)
        = IF todo = <<>> THEN AfterRollback(TRUE, then, by) ELSE Suspend("rolling_back", f)
  BY Zenon DEF EnterCompensation
<1>. HIDE DEF todo
<1>3. /\ f.op = "compensate" /\ f.todo = todo /\ f.then = then
      /\ f = [op |-> f.op, todo |-> f.todo, size |-> f.size, then |-> f.then, by |-> f.by]
  BY LoopFields
<1>. HIDE DEF f
<1>4. IsFrame(f)
  BY <1>3 DEF IsFrame
<1>5. CASE todo = <<>>
  BY <1>2, <1>5, AfterRollbackGood, Zenon
<1>6. CASE todo # <<>>
  BY <1>1, <1>2, <1>3, <1>4, <1>6, CompensateGood
<1>. QED  BY <1>5, <1>6

LEMMA EnterRollbackGood ==
  ASSUME roster \in Seq(Participants), actions \in Seq(Compensations), Fresh,
         NEW then \in {"return", "inner"}, then = "inner" => roster # <<>>,
         NEW by, NEW E, NEW P,
         NoneCommitted(E) \/ AllPrepared(P), roster = <<>> => NoneCommitted(E)
  PROVE  Good(EnterRollback(then, by), by, E, P, executed)
<1>1. CASE roster = <<>>
  <2>1. EnterRollback(then, by) = EnterCompensation("rolling_back", then, by)
    BY <1>1 DEF EnterRollback
  <2>. QED  BY <1>1, <2>1, EnterCompensationGood
<1>2. CASE roster # <<>>
  <2>1. EnterRollback(then, by) = Suspend("rolling_back", Loop("rollback", roster, then, by))
    BY <1>2 DEF EnterRollback
  <2>. QED  BY <1>2, <2>1, RollbackLoopGood
<1>. QED  BY <1>1, <1>2

-----------------------------------------------------------------------------
(* The three operations, called at rest. *)

AtRestNow ==
  /\ roster \in Seq(Participants) /\ actions \in Seq(Compensations)
  /\ AtRest(life, effect, prepared) /\ Counts(life, counted) /\ OnRoster

(* A finished outcome is only reported. *)
Keeps(o) == life \in {"committed", "rolled_back"} => o.life = life

LEMMA PrepareCallGood ==
  ASSUME AtRestNow
  PROVE  LET o == PrepareCall("return", "prepare")
         IN  Good(o, "prepare", effect, prepared, executed) /\ Keeps(o)
<1>1. CASE life \in {"active", "preparing", "failed"}
  <2>1. PrepareCall("return", "prepare") = EnterPrepare("return", "prepare")
    BY <1>1 DEF PrepareCall
  <2>2. Fresh /\ NoneCommitted(effect) /\ Purpose("return", "prepare")
    BY <1>1 DEF AtRestNow, AtRest, Counts, Fresh, Purpose
  <2>3. Good(EnterPrepare("return", "prepare"), "prepare", effect, prepared, executed)
    BY <2>2, EnterPrepareGood DEF AtRestNow
  <2>. QED  BY <1>1, <2>1, <2>3 DEF Keeps
<1>2. ASSUME NEW r \in {"true", "raise"}, PrepareCall("return", "prepare") = Return(life, r)
      PROVE  LET o == PrepareCall("return", "prepare")
             IN  Good(o, "prepare", effect, prepared, executed) /\ Keeps(o)
  <2>1. Totals("prepare", r) = {}
    BY DEF Totals
  <2>2. Counts(life, counted \cup Totals("prepare", r))
    BY <2>1 DEF AtRestNow, Counts
  <2>3. Good(Return(life, r), "prepare", effect, prepared, executed)
    BY <2>2, ReturnGood, Zenon DEF AtRestNow
  <2>4. Return(life, r).life = life
    BY DEF Return
  <2>. QED  BY <1>2, <2>3, <2>4, Zenon DEF Keeps
<1>3. CASE life = "prepared"
  <2>1. PrepareCall("return", "prepare") = Return(life, "true")
    BY <1>3 DEF PrepareCall
  <2>. QED  BY <1>2, <2>1
<1>4. CASE life \in {"committing", "committed", "rolling_back", "rolled_back"}
  <2>1. PrepareCall("return", "prepare") = Return(life, "raise")
    BY <1>4 DEF PrepareCall
  <2>. QED  BY <1>2, <2>1
<1>. QED  BY <1>1, <1>3, <1>4 DEF AtRestNow, AtRest, Life

LEMMA CommitCallGood ==
  ASSUME AtRestNow, NEW by \in {"commit", "exit"}
  PROVE  LET o == CommitCall(by)
         IN  Good(o, by, effect, prepared, executed) /\ Keeps(o)
<1>1. life \in {"active", "prepared", "failed"} => Fresh /\ NoneCommitted(effect)
  BY DEF AtRestNow, AtRest, Counts, Fresh
<1>2. CASE life = "active"
  <2>1. CommitCall(by) = EnterPrepare("commit", by) /\ Purpose("commit", by)
    BY <1>2 DEF CommitCall, Purpose
  <2>2. Good(EnterPrepare("commit", by), by, effect, prepared, executed)
    BY <1>1, <1>2, <2>1, EnterPrepareGood DEF AtRestNow
  <2>. QED  BY <1>2, <2>1, <2>2 DEF Keeps
<1>3. CASE life = "prepared"
  <2>1. CommitCall(by) = EnterCommit(by) /\ AllPrepared(prepared)
    BY <1>3 DEF CommitCall, AtRestNow, AtRest
  <2>2. Good(EnterCommit(by), by, effect, prepared, executed)
    BY <1>1, <1>3, <2>1, EnterCommitGood DEF AtRestNow
  <2>. QED  BY <1>3, <2>1, <2>2 DEF Keeps
<1>4. CASE life = "failed"
  <2>1. CommitCall(by) = EnterRollback("return", by)
    BY <1>4 DEF CommitCall
  <2>2. Good(EnterRollback("return", by), by, effect, prepared, executed)
    BY <1>1, <1>4, EnterRollbackGood DEF AtRestNow
  <2>. QED  BY <1>4, <2>1, <2>2 DEF Keeps
<1>5. ASSUME NEW r, CommitCall(by) = Return(life, r), Counts(life, counted \cup Totals(by, r))
      PROVE  LET o == CommitCall(by)
             IN  Good(o, by, effect, prepared, executed) /\ Keeps(o)
  <2>1. Good(Return(life, r), by, effect, prepared, executed)
    BY <1>5, ReturnGood, Zenon DEF AtRestNow
  <2>2. Return(life, r).life = life
    BY DEF Return
  <2>. QED  BY <1>5, <2>1, <2>2, Zenon DEF Keeps
<1>6. CASE life \in {"committing", "committed"}
  <2>1. CommitCall(by) = Return(life, "true")
    BY <1>6 DEF CommitCall
  <2>2. Counts(life, counted \cup Totals(by, "true"))
    BY <1>6 DEF AtRestNow, AtRest, Counts, Totals
  <2>. QED  BY <1>5, <2>1, <2>2
<1>7. CASE life \in {"preparing", "rolling_back", "rolled_back"}
  <2>1. CommitCall(by) = Return(life, "raise")
    BY <1>7 DEF CommitCall
  <2>2. Counts(life, counted \cup Totals(by, "raise"))
    BY <1>7 DEF AtRestNow, Counts, Totals
  <2>. QED  BY <1>5, <2>1, <2>2
<1>. QED  BY <1>2, <1>3, <1>4, <1>6, <1>7 DEF AtRestNow, AtRest, Life

LEMMA RollbackCallGood ==
  ASSUME AtRestNow, NEW by \in {"rollback", "unwind"}
  PROVE  LET o == RollbackCall(by)
         IN  Good(o, by, effect, prepared, executed) /\ Keeps(o)
<1>1. ASSUME NEW r, RollbackCall(by) = Return(life, r), Counts(life, counted \cup Totals(by, r))
      PROVE  LET o == RollbackCall(by)
             IN  Good(o, by, effect, prepared, executed) /\ Keeps(o)
  <2>1. Good(Return(life, r), by, effect, prepared, executed)
    BY <1>1, ReturnGood, Zenon DEF AtRestNow
  <2>2. Return(life, r).life = life
    BY DEF Return
  <2>. QED  BY <1>1, <2>1, <2>2, Zenon DEF Keeps
<1>2. CASE life \in {"committed", "rolled_back"}
  <2>1. RollbackCall(by) = Return(life, "false")
    BY <1>2 DEF RollbackCall
  <2>2. Counts(life, counted \cup Totals(by, "false"))
    BY <1>2 DEF AtRestNow, Counts, Totals
  <2>. QED  BY <1>1, <2>1, <2>2
<1>3. CASE life = "rolling_back"
  <2>1. RollbackCall(by) = Return(life, "true")
    BY <1>3 DEF RollbackCall
  <2>2. Counts(life, counted \cup Totals(by, "true"))
    BY <1>3 DEF AtRestNow, AtRest, Counts
  <2>. QED  BY <1>1, <2>1, <2>2
<1>4. CASE life \in {"active", "preparing", "prepared", "committing", "failed"}
  <2>1. RollbackCall(by) = EnterRollback("return", by)
    BY <1>4 DEF RollbackCall
  <2>2. Fresh /\ (NoneCommitted(effect) \/ AllPrepared(prepared))
    BY <1>4 DEF AtRestNow, AtRest, Counts, Fresh
  <2>3. roster = <<>> => NoneCommitted(effect)
    <3>1. roster = <<>> => Positions = {}
      BY DEF Positions
    <3>. QED  BY <3>1, Zenon DEF AtRestNow, OnRoster, NoneCommitted
  <2>4. Good(EnterRollback("return", by), by, effect, prepared, executed)
    BY <2>2, <2>3, EnterRollbackGood DEF AtRestNow
  <2>. QED  BY <1>4, <2>1, <2>4 DEF Keeps
<1>. QED  BY <1>2, <1>3, <1>4 DEF AtRestNow, AtRest, Life

(* A body or a call that is cancelled leaves the transaction as it is. *)
LEMMA CancelGood ==
  ASSUME AtRest(life, effect, prepared), Counts(life, counted), NEW by
  PROVE  LET o == Return(life, "cancelled")
         IN  Good(o, by, effect, prepared, executed) /\ Keeps(o)
<1>1. Totals(by, "cancelled") = {}
  BY DEF Totals
<1>2. Counts(life, counted \cup Totals(by, "cancelled"))
  BY <1>1 DEF Counts
<1>3. Good(Return(life, "cancelled"), by, effect, prepared, executed)
  BY <1>2, ReturnGood, Zenon
<1>4. Return(life, "cancelled").life = life
  BY DEF Return
<1>. QED  BY <1>3, <1>4, Zenon DEF Keeps

-----------------------------------------------------------------------------
(* The steps. *)

(* What a step of the only caller has to show. *)
LEMMA ApplyInv ==
  ASSUME OneCaller, IInv, NEW c \in Callers, NEW o, NEW by, Apply(c, o, by), UNCHANGED <<roster, cancelled>>,
         Good(o, by, effect', prepared', executed')
  PROVE  /\ DOMAIN pc' = Callers /\ Counts(life, counted)'
         /\ \A d \in Callers : Sound(life, pc[d], effect, prepared, executed)'
<1>1. /\ life' = o.life /\ pc' = [pc EXCEPT ![c] = o.frame] /\ counted' = counted \cup Totals(by, o.ret)
  BY Zenon DEF Apply
<1>2. DOMAIN pc = Callers
  BY Zenon DEF IInv, Shape
<1>3. DOMAIN pc' = Callers /\ pc'[c] = o.frame
  BY <1>1, <1>2
<1>4. Counts(life, counted)'
  BY <1>1, Zenon DEF Good, Counts
<1>5. Sound(life', pc'[c], effect', prepared', executed')
  BY <1>1, <1>3, ZenonT(30) DEF Good
<1>6. Sound(life, pc[c], effect, prepared, executed)'
  BY <1>5 DEF Sound, AtRest, Preparing, Committing, RollingBack, Compensating,
     Aligned, AllPrepared, AllCommitted, Positions
<1>7. ASSUME NEW d \in Callers
      PROVE  Sound(life, pc[d], effect, prepared, executed)'
  <2>1. d = c
    BY DEF OneCaller
  <2>. QED  BY <1>6, <2>1, Zenon
<1>. QED  BY <1>3, <1>4, <1>7, Zenon

LEMMA CallInv ==
  ASSUME OneCaller, IInv, NEW c \in Callers,
         Prepare(c) \/ CommitTransaction(c) \/ RollbackTransaction(c) \/ ScopeExit(c)
  PROVE  IInv' /\ (life \in {"committed", "rolled_back"} => life' = life)
<1>1. pc[c] = Idle /\ UNCHANGED CallVars
  BY Zenon DEF Prepare, CommitTransaction, RollbackTransaction, ScopeExit
<1>2. AtRestNow
  <2>1. Idle.op = "idle"
    BY DEF Idle
  <2>. QED  BY <1>1, <2>1, Zenon DEF IInv, Shape, Sound, AtRestNow
<1>3. PICK o, by : Apply(c, o, by) /\ Good(o, by, effect, prepared, executed) /\ Keeps(o)
  <2>1. CASE Prepare(c)
    BY <1>2, <2>1, PrepareCallGood, Zenon DEF Prepare
  <2>2. CASE CommitTransaction(c)
    <3>1. Apply(c, CommitCall("commit"), "commit")
      BY <2>2, Zenon DEF CommitTransaction
    <3>. QED  BY <1>2, <3>1, CommitCallGood
  <2>3. CASE RollbackTransaction(c)
    <3>1. Apply(c, RollbackCall("rollback"), "rollback")
      BY <2>3, Zenon DEF RollbackTransaction
    <3>. QED  BY <1>2, <3>1, RollbackCallGood
  <2>4. CASE ScopeExit(c)
    <3>1. \/ Apply(c, CommitCall("exit"), "exit") \/ Apply(c, RollbackCall("unwind"), "unwind")
          \/ Apply(c, Return(life, "cancelled"), "unwind")
      BY <2>4, Zenon DEF ScopeExit
    <3>2. CASE Apply(c, Return(life, "cancelled"), "unwind")
      BY <1>2, <3>2, CancelGood, Zenon DEF AtRestNow
    <3>. QED  BY <1>2, <3>1, <3>2, CommitCallGood, RollbackCallGood
  <2>. QED  BY <2>1, <2>2, <2>3, <2>4, Zenon
<1>4. UNCHANGED <<roster, prepared, actions, executed, effect, runs, cancelled>>
  BY <1>1 DEF CallVars
<1>5. Good(o, by, effect', prepared', executed')
  BY <1>3, <1>4, Zenon
<1>6. /\ DOMAIN pc' = Callers /\ Counts(life, counted)'
      /\ \A d \in Callers : Sound(life, pc[d], effect, prepared, executed)'
  BY <1>3, <1>4, <1>5, ApplyInv, Zenon
<1>7. Shape' /\ OnRoster' /\ RunsMarked'
  BY <1>4, <1>6 DEF IInv, Shape, OnRoster, Positions, RunsMarked
<1>8. life' = o.life
  BY <1>3, Zenon DEF Apply
<1>. QED  BY <1>3, <1>6, <1>7, <1>8, Zenon DEF IInv, Keeps

(* The handler in flight is that of the participant at position Now. *)
Now(f) == f.size - Len(f.todo) + 1

LEMMA HeadOfTodo ==
  ASSUME roster \in Seq(Participants), NEW f, Aligned(f)
  PROVE  /\ Now(f) \in Positions /\ Head(f.todo) = roster[Now(f)] /\ roster[Now(f)] \in Participants
         /\ \A j \in 1..Now(f) : j = Now(f) \/ j \in Past(f)
         /\ f.size = Len(roster) /\ ~(Len(f.todo) > 1) => Now(f) = Len(roster)
         /\ roster # <<>>
<1>1. Len(f.todo) \in Nat /\ Len(roster) \in Nat /\ f.todo # <<>>
  BY LenProperties DEF Aligned
<1>2. Now(f) \in Positions
  BY <1>1 DEF Aligned, Now, Positions
<1>3. Head(f.todo) = f.todo[1] /\ f.todo[1] = roster[Now(f)]
  BY <1>1 DEF Aligned, Now
<1>4. \A j \in 1..Now(f) : j = Now(f) \/ j \in Past(f)
  BY <1>1 DEF Aligned, Now, Past
<1>5. f.size = Len(roster) /\ ~(Len(f.todo) > 1) => Now(f) = Len(roster)
  BY <1>1 DEF Aligned, Now
<1>6. roster[Now(f)] \in Participants /\ roster # <<>>
  BY <1>2 DEF Positions
<1>. QED  BY <1>2, <1>3, <1>4, <1>5, <1>6

LEMMA FrameTodo ==
  ASSUME NEW f, IsFrame(f), NEW u
  PROVE  LET g == [f EXCEPT !.todo = u]
         IN  /\ g.op = f.op /\ g.todo = u /\ g.size = f.size /\ g.then = f.then /\ g.by = f.by
             /\ IsFrame(g)
<1>. DEFINE g == [f EXCEPT !.todo = u]
<1>1. PICK a, t, z, h, b : f = [op |-> a, todo |-> t, size |-> z, then |-> h, by |-> b]
  BY Zenon DEF IsFrame
<1>2. f.op = a /\ f.size = z /\ f.then = h /\ f.by = b
  BY <1>1
<1>3. g = [op |-> a, todo |-> u, size |-> z, then |-> h, by |-> b]
  BY <1>1
<1>. HIDE DEF g
<1>4. g.op = a /\ g.todo = u /\ g.size = z /\ g.then = h /\ g.by = b
  BY <1>3
<1>5. IsFrame(g)
  BY <1>2, <1>3, <1>4, Zenon DEF IsFrame
<1>. QED  BY <1>2, <1>4, <1>5, Zenon DEF g

LEMMA NextOfTodo ==
  ASSUME NEW f, IsFrame(f), Aligned(f), Len(f.todo) > 1, roster \in Seq(Participants)
  PROVE  LET g == [f EXCEPT !.todo = Tail(@)]
         IN  /\ IsFrame(g) /\ Aligned(g) /\ Past(g) = 1..Now(f)
             /\ g.op = f.op /\ g.size = f.size /\ g.then = f.then /\ g.by = f.by
<1>. DEFINE g == [f EXCEPT !.todo = Tail(@)]
<1>1. /\ g.op = f.op /\ g.size = f.size /\ g.then = f.then /\ g.by = f.by /\ g.todo = Tail(f.todo)
      /\ IsFrame(g)
  <2>1. g = [f EXCEPT !.todo = Tail(f.todo)]
    OBVIOUS
  <2>. HIDE DEF g
  <2>. QED  BY <2>1, FrameTodo, ZenonT(30)
<1>. HIDE DEF g
<1>2. f.todo \in Seq(Participants) /\ f.todo # <<>> /\ Len(f.todo) \in Nat
  BY LenProperties DEF Aligned
<1>3. /\ g.todo \in Seq(Participants) /\ Len(g.todo) = Len(f.todo) - 1
      /\ \A i \in 1..(Len(f.todo) - 1) : g.todo[i] = f.todo[i + 1]
  BY <1>1, <1>2, HeadTailProperties
<1>4. Past(g) = 1..Now(f)
  BY <1>1, <1>2, <1>3 DEF Past, Now, Aligned
<1>5. Aligned(g)
  <2>1. /\ Len(g.todo) >= 1 /\ g.size \in Nat /\ Len(g.todo) <= g.size /\ g.size <= Len(roster)
    BY <1>1, <1>2, <1>3 DEF Aligned
  <2>2. ASSUME NEW j \in 1..Len(g.todo)
        PROVE  g.todo[j] = roster[g.size - Len(g.todo) + j]
    <3>0. Len(g.todo) = Len(f.todo) - 1 /\ g.size = f.size /\ f.size \in Nat
      BY <1>1, <1>3 DEF Aligned
    <3>1. g.todo[j] = f.todo[j + 1]
      BY <1>3, <3>0, Zenon
    <3>2. j + 1 \in 1..Len(f.todo) /\ f.size - Len(f.todo) + (j + 1) = g.size - Len(g.todo) + j
      <4>. DEFINE a == Len(f.todo)
                  b == Len(g.todo)
      <4>1. a \in Nat /\ b = a - 1 /\ j \in 1..b /\ f.size \in Nat /\ g.size = f.size
        BY <1>2, <3>0, Zenon
      <4>. HIDE DEF a, b
      <4>2. j + 1 \in 1..a /\ f.size - a + (j + 1) = g.size - b + j
        BY <4>1
      <4>. QED  BY <4>2 DEF a, b
    <3>3. f.todo[j + 1] = roster[f.size - Len(f.todo) + (j + 1)]
      BY <3>2, Zenon DEF Aligned
    <3>. QED  BY <3>1, <3>2, <3>3, Zenon
  <2>. QED  BY <1>3, <2>1, <2>2 DEF Aligned
<1>. QED  BY <1>1, <1>4, <1>5 DEF g

(* The handlers' answers: the loop the caller is in, and what is counted. *)
LEMMA InLoop ==
  ASSUME IInv, NEW c \in Callers, pc[c].op # "idle"
  PROVE  /\ roster \in Seq(Participants) /\ actions \in Seq(Compensations)
         /\ IsFrame(pc[c]) /\ Fresh /\ life \notin {"committed", "rolled_back"}
         /\ pc[c].op = "prepare" => Preparing(life, pc[c], effect, prepared)
         /\ pc[c].op = "commit" => Committing(life, pc[c], effect, prepared)
         /\ pc[c].op = "rollback" => RollingBack(life, pc[c], effect, prepared)
         /\ pc[c].op = "compensate" => Compensating(life, pc[c], effect, executed)
<1>1. Sound(life, pc[c], effect, prepared, executed)
  BY Zenon DEF IInv
<1>2. pc[c].op \in {"prepare", "commit", "rollback", "compensate"}
  BY <1>1 DEF Sound, IsFrame
<1>3. life \in {"preparing", "committing", "rolling_back"}
  BY <1>1, <1>2 DEF Sound, Preparing, Committing, RollingBack, Compensating
<1>4. Fresh
  BY <1>3 DEF IInv, Counts, Fresh
<1>. QED  BY <1>1, <1>3, <1>4 DEF IInv, Shape, Sound

LEMMA PrepareAnswerInv ==
  ASSUME OneCaller, IInv, NEW c \in Callers, NEW ok \in BOOLEAN, PrepareAnswer(c, ok)
  PROVE  IInv'
<1>. DEFINE f == pc[c]
            g == [f EXCEPT !.todo = Tail(@)]
            fine == ok /\ ~Resized(f)
            o == IF ok /\ ~Resized(f) /\ Len(f.todo) > 1 THEN Continue(f)
                 ELSE AfterPrepare(fine, f.then, f.by)
<1>1. /\ f.op = "prepare" /\ prepared' = IF ok THEN prepared \cup {Head(f.todo)} ELSE prepared
      /\ Apply(c, o, f.by) /\ UNCHANGED <<roster, actions, executed, known, effect, runs, cancelled>>
  BY Zenon DEF PrepareAnswer
<1>2. /\ roster \in Seq(Participants) /\ actions \in Seq(Compensations)
      /\ IsFrame(f) /\ Fresh /\ Preparing(life, f, effect, prepared)
  BY <1>1, InLoop
<1>. HIDE DEF f
<1>3. /\ life = "preparing" /\ Aligned(f) /\ NoneCommitted(effect) /\ Purpose(f.then, f.by)
      /\ \A j \in Past(f) : roster[j] \in prepared
  BY <1>2, Zenon DEF Preparing, Purpose
<1>4. /\ Head(f.todo) = roster[Now(f)] /\ \A j \in 1..Now(f) : j = Now(f) \/ j \in Past(f)
      /\ f.size = Len(roster) /\ ~(Len(f.todo) > 1) => Now(f) = Len(roster)
  BY <1>2, <1>3, HeadOfTodo
<1>5. ok => \A j \in 1..Now(f) : roster[j] \in prepared'
  <2>. SUFFICES ASSUME ok, NEW j \in 1..Now(f)
                PROVE  roster[j] \in prepared'
    OBVIOUS
  <2>1. prepared' = prepared \cup {roster[Now(f)]}
    BY <1>1, <1>4, Zenon
  <2>. QED  BY <1>3, <1>4, <2>1, Zenon
<1>6. Good(o, f.by, effect, prepared', executed)
  <2>1. CASE ok /\ ~Resized(f) /\ Len(f.todo) > 1
    <3>1. /\ IsFrame(g) /\ Aligned(g) /\ Past(g) = 1..Now(f)
          /\ g.op = f.op /\ g.then = f.then /\ g.by = f.by
      BY <1>2, <1>3, <2>1, NextOfTodo, Zenon
    <3>2. o = Suspend(life, g)
      BY <2>1, Zenon DEF Continue
    <3>. HIDE DEF g, o
    <3>3. Preparing(life, g, effect, prepared')
      BY <1>3, <1>5, <2>1, <3>1, Zenon DEF Preparing, Purpose
    <3>4. Sound(life, g, effect, prepared', executed)
      BY <1>1, <3>1, <3>3, Zenon DEF Sound
    <3>. QED  BY <1>2, <3>2, <3>4, SuspendGood, Zenon
  <2>2. CASE ~(ok /\ ~Resized(f) /\ Len(f.todo) > 1)
    <3>1. o = AfterPrepare(fine, f.then, f.by)
      BY <2>2, Zenon
    <3>2. fine \in BOOLEAN /\ (fine => AllPrepared(prepared'))
      <4>1. fine => Now(f) = Len(roster)
        BY <1>4, <2>2, Zenon DEF Resized
      <4>. QED  BY <1>5, <4>1, Zenon DEF AllPrepared, Positions
    <3>. HIDE DEF o, fine
    <3>. QED  BY <1>2, <1>3, <3>1, <3>2, AfterPrepareGood, Zenon
  <2>. QED  BY <2>1, <2>2, Zenon
<1>7. Good(o, f.by, effect', prepared', executed')
  BY <1>1, <1>6, Zenon
<1>. HIDE DEF o
<1>8. /\ DOMAIN pc' = Callers /\ Counts(life, counted)'
      /\ \A d \in Callers : Sound(life, pc[d], effect, prepared, executed)'
  BY <1>1, <1>7, ApplyInv, Zenon
<1>9. Shape' /\ OnRoster' /\ RunsMarked'
  BY <1>1, <1>8 DEF IInv, Shape, OnRoster, Positions, RunsMarked
<1>. QED  BY <1>8, <1>9, Zenon DEF IInv

LEMMA CommitAnswerInv ==
  ASSUME OneCaller, IInv, NEW c \in Callers, NEW ok \in BOOLEAN, CommitAnswer(c, ok)
  PROVE  IInv'
<1>. DEFINE f == pc[c]
            g == [f EXCEPT !.todo = Tail(@)]
            o == CASE ~ok \/ Resized(f) -> CommitFailed(f.by)
                   [] ok /\ ~Resized(f) /\ Len(f.todo) > 1 -> Continue(f)
                   [] OTHER -> Return("committed", "true")
<1>1. /\ f.op = "commit"
      /\ effect' = IF ok THEN [effect EXCEPT ![Head(f.todo)] = "committed"] ELSE effect
      /\ Apply(c, o, f.by) /\ UNCHANGED <<roster, prepared, actions, executed, known, runs, cancelled>>
  BY Zenon DEF CommitAnswer
<1>2. /\ roster \in Seq(Participants) /\ actions \in Seq(Compensations)
      /\ IsFrame(f) /\ Fresh /\ Committing(life, f, effect, prepared)
  BY <1>1, InLoop
<1>. HIDE DEF f
<1>3. /\ life = "committing" /\ Aligned(f) /\ f.size = Len(roster) /\ AllPrepared(prepared)
      /\ \A j \in Past(f) : effect[roster[j]] = "committed"
      /\ f.by \in {"commit", "exit"}
  BY <1>2, Zenon DEF Committing
<1>4. /\ Now(f) \in Positions /\ Head(f.todo) = roster[Now(f)] /\ roster[Now(f)] \in Participants
      /\ \A j \in 1..Now(f) : j = Now(f) \/ j \in Past(f)
      /\ ~(Len(f.todo) > 1) => Now(f) = Len(roster)
      /\ roster # <<>>
  BY <1>2, <1>3, HeadOfTodo
<1>5. effect \in [Participants -> {"none", "committed", "undone"}] /\ OnRoster
  BY Zenon DEF IInv, Shape
<1>6. /\ effect' \in [Participants -> {"none", "committed", "undone"}]
      /\ \A p \in Participants : effect'[p] = effect[p] \/ (ok /\ p = roster[Now(f)] /\ effect'[p] = "committed")
      /\ ok => effect'[roster[Now(f)]] = "committed"
  <2>. DEFINE h == roster[Now(f)]
  <2>1. effect' = IF ok THEN [effect EXCEPT ![h] = "committed"] ELSE effect
    BY <1>1, <1>4, Zenon
  <2>2. h \in Participants
    BY <1>4, Zenon
  <2>. HIDE DEF h, o
  <2>3. CASE ok
    <3>1. effect' = [effect EXCEPT ![h] = "committed"]
      BY <2>1, <2>3, Zenon
    <3>2. /\ effect' \in [Participants -> {"none", "committed", "undone"}]
          /\ \A p \in Participants : effect'[p] = effect[p] \/ (p = h /\ effect'[p] = "committed")
          /\ effect'[h] = "committed"
      BY <1>5, <2>2, <3>1
    <3>. QED  BY <2>3, <3>2, Zenon DEF h
  <2>4. CASE ~ok
    BY <1>5, <2>1, <2>4, Zenon
  <2>. QED  BY <2>3, <2>4, Zenon
<1>7. ASSUME ok, NEW j \in 1..Now(f)
      PROVE  effect'[roster[j]] = "committed"
  <2>1. j \in Positions /\ roster[j] \in Participants
    BY <1>2, <1>4 DEF Positions
  <2>2. CASE j = Now(f)
    BY <1>6, <1>7, <2>2, Zenon
  <2>3. CASE j \in Past(f)
    BY <1>3, <1>6, <2>1, <2>3, Zenon
  <2>. QED  BY <1>4, <2>2, <2>3, Zenon
<1>8. Good(o, f.by, effect', prepared, executed)
  <2>1. ~Resized(f)
    BY <1>3, Zenon DEF Resized
  <2>2. CASE ~ok
    <3>1. o = CommitFailed(f.by)
      BY <2>1, <2>2
    <3>2. CommitFailed(f.by) = EnterRollback("inner", f.by)
      BY <1>3 DEF CommitFailed
    <3>. HIDE DEF o
    <3>. QED  BY <1>2, <1>3, <1>4, <3>1, <3>2, EnterRollbackGood, Zenon
  <2>3. CASE ok /\ Len(f.todo) > 1
    <3>1. /\ IsFrame(g) /\ Aligned(g) /\ Past(g) = 1..Now(f)
          /\ g.op = f.op /\ g.size = f.size /\ g.by = f.by
      BY <1>2, <1>3, <2>3, NextOfTodo, Zenon
    <3>2. o = Suspend(life, g)
      BY <2>1, <2>3 DEF Continue
    <3>. HIDE DEF g, o
    <3>3. Committing(life, g, effect', prepared)
      BY <1>3, <1>7, <2>3, <3>1, Zenon DEF Committing
    <3>4. Sound(life, g, effect', prepared, executed)
      BY <1>1, <3>1, <3>3, Zenon DEF Sound
    <3>. QED  BY <1>2, <3>2, <3>4, SuspendGood, Zenon
  <2>4. CASE ok /\ ~(Len(f.todo) > 1)
    <3>1. o = Return("committed", "true")
      BY <2>1, <2>4
    <3>2. AllCommitted(effect')
      BY <1>4, <1>7, <2>4, Zenon DEF AllCommitted, Positions
    <3>3. AtRest("committed", effect', prepared)
      BY <1>3, <3>2 DEF AtRest, Life
    <3>4. Counts("committed", counted \cup Totals(f.by, "true"))
      BY <1>2, <1>3 DEF Counts, Totals, Fresh
    <3>. HIDE DEF o
    <3>. QED  BY <3>1, <3>3, <3>4, ReturnGood, Zenon
  <2>. QED  BY <2>2, <2>3, <2>4, Zenon
<1>9. Good(o, f.by, effect', prepared', executed')
  BY <1>1, <1>8, Zenon
<1>. HIDE DEF o
<1>10. /\ DOMAIN pc' = Callers /\ Counts(life, counted)'
       /\ \A d \in Callers : Sound(life, pc[d], effect, prepared, executed)'
  BY <1>1, <1>9, ApplyInv, Zenon
<1>11. OnRoster'
  BY <1>1, <1>4, <1>5, <1>6 DEF OnRoster, Positions
<1>12. Shape' /\ RunsMarked'
  BY <1>1, <1>6, <1>10, Zenon DEF IInv, Shape, RunsMarked
<1>. QED  BY <1>10, <1>11, <1>12, Zenon DEF IInv

LEMMA RollbackAnswerInv ==
  ASSUME OneCaller, IInv, NEW c \in Callers, RollbackAnswer(c)
  PROVE  IInv'
<1>. DEFINE f == pc[c]
            g == [f EXCEPT !.todo = Tail(@)]
            o == CASE Resized(f) -> AfterRollback(FALSE, f.then, f.by)
                   [] ~Resized(f) /\ Len(f.todo) > 1 -> Continue(f)
                   [] OTHER -> EnterCompensation(life, f.then, f.by)
<1>1. /\ f.op = "rollback" /\ effect' = [effect EXCEPT ![Head(f.todo)] = "undone"]
      /\ Apply(c, o, f.by) /\ UNCHANGED <<roster, prepared, actions, executed, known, runs, cancelled>>
  BY Zenon DEF RollbackAnswer
<1>2. /\ roster \in Seq(Participants) /\ actions \in Seq(Compensations)
      /\ IsFrame(f) /\ Fresh /\ RollingBack(life, f, effect, prepared)
  BY <1>1, InLoop
<1>. HIDE DEF f
<1>3. /\ life = "rolling_back" /\ Aligned(f) /\ f.size = Len(roster)
      /\ NoneCommitted(effect) \/ AllPrepared(prepared)
      /\ \A j \in Past(f) : effect[roster[j]] # "committed"
      /\ f.then \in {"return", "inner", "outer"}
  BY <1>2, Zenon DEF RollingBack
<1>4. /\ Now(f) \in Positions /\ Head(f.todo) = roster[Now(f)] /\ roster[Now(f)] \in Participants
      /\ \A j \in 1..Now(f) : j = Now(f) \/ j \in Past(f)
      /\ ~(Len(f.todo) > 1) => Now(f) = Len(roster)
      /\ roster # <<>>
  BY <1>2, <1>3, HeadOfTodo, Zenon
<1>5. effect \in [Participants -> {"none", "committed", "undone"}] /\ OnRoster
  BY Zenon DEF IInv, Shape
<1>6. /\ effect' \in [Participants -> {"none", "committed", "undone"}]
      /\ \A p \in Participants : effect'[p] = "committed" => effect[p] = "committed"
      /\ effect'[roster[Now(f)]] = "undone"
  <2>. DEFINE h == roster[Now(f)]
  <2>1. effect' = [effect EXCEPT ![h] = "undone"] /\ h \in Participants
    BY <1>1, <1>4, Zenon
  <2>. HIDE DEF h, o
  <2>2. /\ effect' \in [Participants -> {"none", "committed", "undone"}]
        /\ \A p \in Participants : effect'[p] = "committed" => effect[p] = "committed"
        /\ effect'[h] = "undone"
    BY <1>5, <2>1
  <2>. QED  BY <2>2 DEF h
<1>7. ASSUME NEW j \in 1..Now(f)
      PROVE  effect'[roster[j]] # "committed"
  <2>1. j \in Positions /\ roster[j] \in Participants
    BY <1>2, <1>4 DEF Positions
  <2>2. CASE j = Now(f)
    BY <1>6, <2>2
  <2>3. CASE j \in Past(f)
    BY <1>3, <1>6, <2>1, <2>3, Zenon
  <2>. QED  BY <1>4, <2>2, <2>3, Zenon
<1>8. OnRoster'
  <2>1. \A p \in Participants : effect'[p] = "committed" => \E i \in Positions : roster[i] = p
    BY <1>5, <1>6, Zenon DEF OnRoster
  <2>. QED  BY <1>1, <2>1, Zenon DEF OnRoster, Positions
<1>9. Good(o, f.by, effect', prepared, executed)
  <2>1. ~Resized(f)
    BY <1>3, Zenon DEF Resized
  <2>2. CASE Len(f.todo) > 1
    <3>1. /\ IsFrame(g) /\ Aligned(g) /\ Past(g) = 1..Now(f)
          /\ g.op = f.op /\ g.size = f.size /\ g.then = f.then
      BY <1>2, <1>3, <2>2, NextOfTodo, Zenon
    <3>2. o = Suspend(life, g)
      BY <2>1, <2>2, Zenon DEF Continue
    <3>. HIDE DEF g, o
    <3>3. NoneCommitted(effect') \/ AllPrepared(prepared)
      BY <1>3, <1>6, Zenon DEF NoneCommitted
    <3>4. RollingBack(life, g, effect', prepared)
      BY <1>3, <1>7, <3>1, <3>3, Zenon DEF RollingBack
    <3>5. Sound(life, g, effect', prepared, executed)
      BY <1>1, <3>1, <3>4, Zenon DEF Sound
    <3>. QED  BY <1>2, <3>2, <3>5, SuspendGood, Zenon
  <2>3. CASE ~(Len(f.todo) > 1)
    <3>1. o = EnterCompensation("rolling_back", f.then, f.by)
      BY <1>3, <2>1, <2>3, Zenon
    <3>2. \A j \in Positions : effect'[roster[j]] # "committed"
      BY <1>4, <1>7, <2>3, Zenon DEF Positions
    <3>3. NoneCommitted(effect')
      BY <1>5, <1>6, <3>2, Zenon DEF OnRoster, NoneCommitted
    <3>. HIDE DEF o
    <3>. QED  BY <1>2, <1>3, <1>4, <3>1, <3>3, EnterCompensationGood, Zenon
  <2>. QED  BY <2>2, <2>3, Zenon
<1>10. Good(o, f.by, effect', prepared', executed')
  BY <1>1, <1>9, Zenon
<1>. HIDE DEF o
<1>11. /\ DOMAIN pc' = Callers /\ Counts(life, counted)'
       /\ \A d \in Callers : Sound(life, pc[d], effect, prepared, executed)'
  BY <1>1, <1>10, ApplyInv, Zenon
<1>12. Shape' /\ RunsMarked'
  BY <1>1, <1>6, <1>11 DEF IInv, Shape, RunsMarked
<1>. QED  BY <1>8, <1>11, <1>12, Zenon DEF IInv

(* A compensation runs only while it is not marked, and is marked by the run
   that succeeds. *)
LEMMA CompensationAnswerInv ==
  ASSUME OneCaller, IInv, NEW c \in Callers, NEW ok \in BOOLEAN, CompensationAnswer(c, ok)
  PROVE  IInv'
<1>. DEFINE f == pc[c]
            k == Head(f.todo)
            rest == Skip(Tail(f.todo), executed')
            g == [f EXCEPT !.todo = rest]
            o == IF rest = <<>> THEN AfterRollback(TRUE, f.then, f.by) ELSE Suspend(life, g)
<1>1. /\ f.op = "compensate" /\ executed' = IF ok THEN executed \cup {k} ELSE executed
      /\ runs' = IF ok THEN [runs EXCEPT ![k] = IF @ = 2 THEN 2 ELSE @ + 1] ELSE runs
      /\ Apply(c, o, f.by) /\ UNCHANGED <<roster, prepared, actions, known, effect, cancelled>>
  BY Zenon DEF CompensationAnswer
<1>2. /\ roster \in Seq(Participants) /\ IsFrame(f) /\ Fresh
      /\ Compensating(life, f, effect, executed)
  BY <1>1, InLoop
<1>. HIDE DEF f
<1>3. /\ life = "rolling_back" /\ NoneCommitted(effect)
      /\ IsSeq(f.todo) /\ f.todo # <<>> /\ k \notin executed
      /\ f.then \in {"return", "inner", "outer"} /\ (f.then = "inner" => roster # <<>>)
  BY <1>2, Zenon DEF Compensating
<1>4. IsSeq(rest) /\ (rest # <<>> => Head(rest) \notin executed')
  <2>1. IsSeq(Tail(f.todo))
    BY <1>3, TailIsSeq
  <2>. QED  BY <2>1, SkipsDone
<1>5. Good(o, f.by, effect, prepared, executed')
  <2>1. g.op = f.op /\ g.todo = rest /\ g.then = f.then /\ IsFrame(g)
    BY <1>2, FrameTodo, Zenon
  <2>. HIDE DEF rest, g
  <2>2. CASE rest = <<>>
    <3>1. o = AfterRollback(TRUE, f.then, f.by)
      BY <2>2, Zenon
    <3>. QED  BY <1>2, <1>3, <3>1, AfterRollbackGood, Zenon
  <2>3. CASE rest # <<>>
    <3>1. o = Suspend("rolling_back", g)
      BY <1>3, <2>3, Zenon
    <3>. HIDE DEF o
    <3>. QED  BY <1>1, <1>2, <1>3, <1>4, <2>1, <2>3, <3>1, CompensateGood, Zenon
  <2>. QED  BY <2>2, <2>3, Zenon
<1>6. Good(o, f.by, effect', prepared', executed')
  BY <1>1, <1>5, Zenon
<1>. HIDE DEF o, k
<1>7. /\ DOMAIN pc' = Callers /\ Counts(life, counted)'
      /\ \A d \in Callers : Sound(life, pc[d], effect, prepared, executed)'
  BY <1>1, <1>6, ApplyInv
<1>8. runs' \in [Compensations -> 0..2] /\ RunsMarked'
  <2>1. runs \in [Compensations -> 0..2] /\ RunsMarked
    BY Zenon DEF IInv, Shape
  <2>2. CASE ok
    <3>1. executed' = executed \cup {k} /\ runs' = [runs EXCEPT ![k] = IF @ = 2 THEN 2 ELSE @ + 1]
      BY <1>1, <2>2, Zenon
    <3>2. runs' \in [Compensations -> 0..2]
      <4>. DEFINE v == IF runs[k] = 2 THEN 2 ELSE runs[k] + 1
      <4>1. k \in Compensations => v \in 0..2
        BY <2>1
      <4>2. runs' = [runs EXCEPT ![k] = v]
        BY <3>1
      <4>. HIDE DEF v
      <4>. QED  BY <2>1, <4>1, <4>2, Zenon
    <3>3. ASSUME NEW j \in Compensations
          PROVE  runs'[j] = IF j \in executed' THEN 1 ELSE 0
      <4>1. runs[j] = IF j \in executed THEN 1 ELSE 0
        BY <2>1, Zenon DEF RunsMarked
      <4>2. CASE j = k
        <5>1. runs[j] = 0 /\ j \in executed'
          BY <1>3, <3>1, <4>1, <4>2, Zenon
        <5>2. runs'[j] = IF runs[j] = 2 THEN 2 ELSE runs[j] + 1
          BY <2>1, <3>1, <4>2
        <5>. QED  BY <5>1, <5>2
      <4>3. CASE j # k
        <5>1. runs'[j] = runs[j]
          BY <2>1, <3>1, <4>3
        <5>2. j \in executed' <=> j \in executed
          BY <3>1, <4>3, Zenon
        <5>. QED  BY <4>1, <5>1, <5>2, Zenon
      <4>. QED  BY <4>2, <4>3, Zenon
    <3>. QED  BY <3>2, <3>3, Zenon DEF RunsMarked
  <2>3. CASE ~ok
    <3>1. executed' = executed /\ runs' = runs
      BY <1>1, <2>3, Zenon
    <3>. QED  BY <2>1, <3>1, Zenon DEF RunsMarked
  <2>. QED  BY <2>2, <2>3, Zenon
<1>9. Shape' /\ OnRoster'
  BY <1>1, <1>7, <1>8, Zenon DEF IInv, Shape, OnRoster, Positions
<1>. QED  BY <1>7, <1>8, <1>9, Zenon DEF IInv

(* A participant joins while nothing is committed, and is not in the loop that
   is under way. *)
LEMMA AddParticipantInv ==
  ASSUME JoinsEarly, IInv, NEW p \in Participants, AddParticipant(p)
  PROVE  IInv'
<1>1. /\ life \in {"active", "preparing"} /\ roster' = Append(roster, p)
      /\ UNCHANGED <<life, prepared, actions, executed, pc, counted, effect, runs, cancelled>>
  BY DEF AddParticipant, JoinsEarly
<1>2. roster \in Seq(Participants)
  BY Zenon DEF IInv, Shape
<1>3. /\ roster' \in Seq(Participants) /\ Len(roster) \in Nat /\ Len(roster') = Len(roster) + 1
      /\ \A i \in 1..Len(roster) : roster'[i] = roster[i]
  BY <1>1, <1>2, AppendProperties, LenProperties
<1>4. Shape' /\ RunsMarked' /\ Counts(life, counted)'
  BY <1>1, <1>3, Zenon DEF IInv, Shape, RunsMarked, Counts
<1>5. OnRoster'
  <2>1. \A i \in Positions : i \in Positions' /\ roster'[i] = roster[i]
    BY <1>3 DEF Positions
  <2>. QED  BY <1>1, <2>1, Zenon DEF IInv, OnRoster
<1>6. ASSUME NEW c \in Callers
      PROVE  Sound(life, pc[c], effect, prepared, executed)'
  <2>. DEFINE f == pc[c]
  <2>1. Sound(life, f, effect, prepared, executed)
    BY Zenon DEF IInv
  <2>. HIDE DEF f
  <2>2. f.op = "idle" \/ f.op = "prepare"
    BY <1>1, <2>1, Zenon DEF Sound, IsFrame, Committing, RollingBack, Compensating
  <2>3. CASE f.op = "idle"
    <3>1. f = Idle /\ IsFrame(f) /\ AtRest(life, effect, prepared) /\ f' = f
      BY <1>1, <2>1, <2>3, Zenon DEF Sound, f
    <3>2. NoneCommitted(effect)
      BY <1>1, <3>1 DEF AtRest
    <3>3. AtRest(life, effect, prepared)'
      BY <1>1, <3>1, <3>2 DEF AtRest, NoneCommitted
    <3>4. Sound(life, f, effect, prepared, executed)'
      BY <2>3, <3>1, <3>3, Zenon DEF Sound, IsFrame, Idle
    <3>. QED  BY <3>4 DEF f
  <2>4. CASE f.op = "prepare"
    <3>1. Preparing(life, f, effect, prepared) /\ IsFrame(f)
      BY <2>1, <2>4, Zenon DEF Sound
    <3>2. /\ Aligned(f) /\ Len(f.todo) \in Nat /\ f.size \in Nat
      BY <3>1, LenProperties DEF Preparing, Aligned
    <3>3. \A j \in 1..Len(f.todo) : f.size - Len(f.todo) + j \in 1..Len(roster)
      BY <1>3, <3>2 DEF Aligned
    <3>4. \A j \in Past(f) : j \in 1..Len(roster)
      BY <1>3, <3>2 DEF Aligned, Past
    <3>5. \A j \in 1..Len(f.todo) : f.todo[j] = roster'[f.size - Len(f.todo) + j]
      BY <1>3, <3>2, <3>3, Zenon DEF Aligned
    <3>6. f.size <= Len(roster')
      BY <1>3, <3>2 DEF Aligned
    <3>7. \A j \in Past(f) : roster'[j] \in prepared
      BY <1>3, <3>1, <3>4, Zenon DEF Preparing
    <3>8. f' = f
      BY <1>1, Zenon DEF f
    <3>9. Preparing(life, f, effect, prepared)'
      BY <1>1, <3>1, <3>5, <3>6, <3>7, <3>8, Zenon DEF Preparing, Aligned, NoneCommitted, Past
    <3>10. Sound(life, f, effect, prepared, executed)'
      BY <2>4, <3>1, <3>8, <3>9, Zenon DEF Sound, IsFrame
    <3>. QED  BY <3>10 DEF f
  <2>. QED  BY <2>2, <2>3, <2>4
<1>. QED  BY <1>4, <1>5, <1>6, Zenon DEF IInv

(* A cancelled call leaves the state of the loop it was in behind. *)
LEMMA CallCancelledInv ==
  ASSUME OneCaller, IInv, NEW c \in Callers, CallCancelled(c)
  PROVE  IInv' /\ life' = life
<1>. DEFINE o == Return(life, "cancelled")
<1>1. /\ pc[c] # Idle /\ Apply(c, o, pc[c].by) /\ cancelled' = TRUE
      /\ UNCHANGED <<roster, prepared, actions, executed, known, effect, runs>>
  BY Zenon DEF CallCancelled
<1>2. o.life = life /\ o.frame = Idle
  BY DEF Return
<1>3. life' = life /\ pc' = [pc EXCEPT ![c] = Idle]
  BY <1>1, <1>2, Zenon DEF Apply
<1>. HIDE DEF o
<1>4. DOMAIN pc = Callers /\ Sound(life, pc[c], effect, prepared, executed)
  BY Zenon DEF IInv, Shape
<1>5. DOMAIN pc' = Callers /\ pc'[c] = Idle
  BY <1>3, <1>4
<1>6. pc[c].op \in {"prepare", "commit", "rollback", "compensate"}
  BY <1>1, <1>4, Zenon DEF Sound, IsFrame
<1>7. /\ life \in {"preparing", "committing", "rolling_back"}
      /\ life = "preparing" => NoneCommitted(effect)
      /\ life = "committing" => AllPrepared(prepared)
      /\ life = "rolling_back" => NoneCommitted(effect) \/ AllPrepared(prepared)
  BY <1>4, <1>6 DEF Sound, Preparing, Committing, RollingBack, Compensating
<1>8. (NoneCommitted(effect)' <=> NoneCommitted(effect)) /\ (AllPrepared(prepared)' <=> AllPrepared(prepared))
  BY <1>1, Zenon DEF NoneCommitted, AllPrepared, Positions
<1>9. AtRest(life, effect, prepared)'
  BY <1>1, <1>3, <1>7, <1>8 DEF AtRest, Life
<1>10. IsFrame(Idle) /\ Idle.op = "idle"
  BY DEF IsFrame, Idle
<1>11. Sound(life, pc[c], effect, prepared, executed)'
  BY <1>5, <1>9, <1>10, Zenon DEF Sound, IsFrame, Idle
<1>12. \A d \in Callers : Sound(life, pc[d], effect, prepared, executed)'
  <2>. SUFFICES ASSUME NEW d \in Callers
                PROVE  Sound(life, pc[d], effect, prepared, executed)'
    OBVIOUS
  <2>1. d = c
    BY DEF OneCaller
  <2>. QED  BY <1>11, <2>1, Zenon
<1>13. Shape' /\ OnRoster' /\ RunsMarked'
  BY <1>1, <1>5, Zenon DEF IInv, Shape, OnRoster, Positions, RunsMarked
<1>14. Counts(life, counted)'
  BY <1>1, Zenon DEF Counts
<1>. QED  BY <1>3, <1>12, <1>13, <1>14, Zenon DEF IInv

(* Steps that change nothing the invariant speaks of but the compensations. *)
LEMMA OtherInv ==
  ASSUME IInv, actions' \in Seq(Compensations),
         UNCHANGED <<life, roster, prepared, executed, pc, counted, effect, runs, cancelled>>
  PROVE  IInv'
<1>1. Shape' /\ RunsMarked' /\ OnRoster' /\ Counts(life, counted)'
  BY Zenon DEF IInv, Shape, RunsMarked, OnRoster, Positions, Counts
<1>2. ASSUME NEW c \in Callers
      PROVE  Sound(life, pc[c], effect, prepared, executed)'
  <2>1. Sound(life, pc[c], effect, prepared, executed)
    BY Zenon DEF IInv
  <2>. QED
    BY <2>1, ZenonT(60) DEF Sound, IsFrame, AtRest, Preparing, Committing, RollingBack, Compensating, Idle,
       Aligned, Past, IsSeq, Elems, AllPrepared, AllCommitted, NoneCommitted, Positions
<1>. QED  BY <1>1, <1>2, Zenon DEF IInv

-----------------------------------------------------------------------------
(* The theorems. *)

LEMMA InitIInv == Init => IInv
<1>. SUFFICES ASSUME Init
              PROVE  IInv
  OBVIOUS
<1>1. roster = <<>> /\ actions = <<>>
  BY DEF Init
<1>2. Shape
  BY <1>1 DEF Init, Shape
<1>3. NoneCommitted(effect) /\ OnRoster
  BY DEF Init, NoneCommitted, OnRoster
<1>4. RunsMarked /\ Counts(life, counted)
  BY Zenon DEF Init, RunsMarked, Counts
<1>5. ASSUME NEW c \in Callers
      PROVE  Sound(life, pc[c], effect, prepared, executed)
  <2>1. pc[c] = Idle /\ life = "active"
    BY DEF Init
  <2>2. IsFrame(Idle) /\ Idle.op = "idle"
    BY DEF IsFrame, Idle
  <2>3. AtRest("active", effect, prepared)
    BY <1>3 DEF AtRest, Life
  <2>. QED  BY <2>1, <2>2, <2>3, Zenon DEF Sound
<1>. QED  BY <1>2, <1>3, <1>4, <1>5, Zenon DEF IInv

(* A step keeps the invariant and leaves a finished transaction as it is. *)
LEMMA NextIInv ==
  ASSUME OneCaller, JoinsEarly, IInv, [Next]_vars
  PROVE  IInv' /\ (life \in {"committed", "rolled_back"} => life' = life)
<1>1. ASSUME NEW p \in Participants, AddParticipant(p)
      PROVE  IInv' /\ life' = life
  BY <1>1, AddParticipantInv, Zenon DEF AddParticipant
<1>2. ASSUME NEW k \in Compensations, AddCompensation(k)
      PROVE  IInv' /\ life' = life
  <2>1. actions' = Append(actions, k) /\ actions \in Seq(Compensations)
    BY <1>2, Zenon DEF AddCompensation, IInv, Shape
  <2>2. actions' \in Seq(Compensations)
    BY <2>1
  <2>. QED  BY <1>2, <2>2, OtherInv DEF AddCompensation
<1>3. ASSUME Cleanup \/ UNCHANGED vars
      PROVE  IInv' /\ life' = life
  <2>1. UNCHANGED <<life, roster, prepared, actions, executed, pc, counted, effect, runs, cancelled>>
    BY <1>3 DEF Cleanup, vars
  <2>2. actions' \in Seq(Compensations)
    BY <2>1, Zenon DEF IInv, Shape
  <2>. QED  BY <2>1, <2>2, OtherInv, Zenon
<1>4. ASSUME NEW c \in Callers, HandlerAnswers(c)
      PROVE  IInv' /\ life \notin {"committed", "rolled_back"}
  <2>1. pc[c].op # "idle"
    BY <1>4, Zenon DEF HandlerAnswers, PrepareAnswer, CommitAnswer, CompensationAnswer, RollbackAnswer
  <2>2. IInv'
    BY <1>4, PrepareAnswerInv, CommitAnswerInv, CompensationAnswerInv, RollbackAnswerInv, Zenon
       DEF HandlerAnswers
  <2>. QED  BY <2>1, <2>2, InLoop, Zenon
<1>5. ASSUME NEW c \in Callers, CallCancelled(c)
      PROVE  IInv' /\ life' = life
  BY <1>5, CallCancelledInv, Zenon
<1>. QED  BY <1>1, <1>2, <1>3, <1>4, <1>5, CallInv, Zenon DEF Next

(* With one caller and early participants IInv always holds. *)
THEOREM Invariance == ASSUME OneCaller, JoinsEarly PROVE Spec => []IInv
<1>1. IInv /\ [Next]_vars => IInv'
  BY NextIInv
<1>. QED  BY InitIInv, <1>1, PTL DEF Spec

(* The only call: at rest, or in one of the loops. *)
LEMMA TheCall ==
  ASSUME OneCaller, IInv
  PROVE  \E c \in Callers : Callers = {c} /\ Sound(life, pc[c], effect, prepared, executed)
BY Zenon DEF OneCaller, IInv

(* Two-phase commit: no commit handler runs before every participant, late ones
   included, has prepared. *)
THEOREM TwoPhases == ASSUME OneCaller, JoinsEarly PROVE Spec => []CommitNeedsAllPrepared
<1>1. ASSUME IInv
      PROVE  CommitNeedsAllPrepared
  <2>1. PICK c \in Callers : Callers = {c} /\ Sound(life, pc[c], effect, prepared, executed)
    BY <1>1, TheCall
  <2>2. roster \in Seq(Participants) /\ DOMAIN roster = Positions
    BY <1>1 DEF IInv, Shape, Positions
  <2>3. pc[c].op \in {"idle", "prepare", "commit", "rollback", "compensate"}
    BY <2>1, Zenon DEF Sound, IsFrame
  <2>4. (NoneCommitted(effect) /\ pc[c].op # "commit") \/ AllPrepared(prepared)
    BY <2>1, <2>3 DEF Sound, AtRest, Preparing, Committing, RollingBack, Compensating
  <2>5. AllPrepared(prepared) => Range(roster) \subseteq prepared
    BY <2>2, Zenon DEF AllPrepared, Range
  <2>. QED  BY <2>1, <2>4, <2>5, Zenon DEF CommitNeedsAllPrepared, NoneCommitted
<1>. QED  BY Invariance, <1>1, PTL

(* Between calls, either all participants have committed or none has without
   its rollback handler having been called since; a transaction that rests in
   committing or rolling_back was left there by a cancelled call. *)
THEOREM Atomic == ASSUME OneCaller, JoinsEarly PROVE Spec => []AllOrNothing
<1>1. ASSUME IInv, \A c \in Callers : pc[c] = Idle
      PROVE  /\ life = "committed" => \A p \in Range(roster) : effect[p] = "committed"
             /\ life \in {"committing", "rolling_back"} => cancelled
             /\ life \notin {"committed", "committing", "rolling_back"} =>
                  \A p \in Range(roster) : effect[p] # "committed"
  <2>1. PICK c \in Callers : Callers = {c} /\ Sound(life, pc[c], effect, prepared, executed)
    BY <1>1, TheCall
  <2>2. pc[c] = Idle /\ Idle.op = "idle"
    BY <1>1 DEF Idle
  <2>3. AtRest(life, effect, prepared)
    BY <2>1, <2>2, Zenon DEF Sound
  <2>4. roster \in Seq(Participants) /\ DOMAIN roster = Positions
    BY <1>1 DEF IInv, Shape, Positions
  <2>5. \A i \in Positions : roster[i] \in Participants
    BY <2>4
  <2>6. CASE life = "committed"
    BY <2>3, <2>4, <2>6 DEF AtRest, AllCommitted, Range
  <2>7. CASE life \in {"committing", "rolling_back"}
    BY <2>3, <2>7 DEF AtRest
  <2>8. CASE life \notin {"committed", "committing", "rolling_back"}
    <3>1. NoneCommitted(effect)
      BY <2>3, <2>8 DEF AtRest
    <3>2. \A p \in Range(roster) : effect[p] # "committed"
      BY <2>4, <2>5, <3>1, Zenon DEF NoneCommitted, Range
    <3>. QED  BY <2>8, <3>2, Zenon
  <2>. QED  BY <2>6, <2>7, <2>8, Zenon
<1>2. IInv => AllOrNothing
  BY <1>1 DEF AllOrNothing
<1>. QED  BY Invariance, <1>2, PTL

(* A compensation that has succeeded is never run again, whatever rollbacks
   follow. *)
THEOREM CompensatesOnce == ASSUME OneCaller, JoinsEarly PROVE Spec => []CompensatedOnce
<1>1. IInv => CompensatedOnce
  BY DEF IInv, RunsMarked, CompensatedOnce
<1>. QED  BY Invariance, <1>1, PTL

(* Nothing leaves committed or rolled_back, and unless a call was cancelled the
   manager's totals never count both outcomes, nor a rollback before its end. *)
THEOREM FinalOutcome == ASSUME OneCaller, JoinsEarly PROVE Spec => OutcomeIsFinal
<1>. DEFINE Final == /\ (life \in {"committed", "rolled_back"}) => life' = life
                     /\ \/ cancelled'
                        \/ /\ ~({"committed", "rolled_back"} \subseteq counted')
                           /\ "rolled_back" \in counted' => life' = "rolled_back"
<1>1. ASSUME IInv, [Next]_vars
      PROVE  Final
  <2>1. IInv' /\ (life \in {"committed", "rolled_back"} => life' = life)
    BY <1>1, NextIInv
  <2>. QED  BY <2>1, Zenon DEF IInv, Counts
<1>2. IInv /\ [Next]_vars => [Final]_vars
  BY <1>1, Zenon
<1>. QED  BY Invariance, <1>2, PTL DEF Spec, OutcomeIsFinal

-----------------------------------------------------------------------------
(* Type correctness, for any callers.  The compensations of a rollback are the
   registered ones in their order: every place of the sorted list is taken. *)

(* The order of the sorted list: a total order of the positions. *)
Before(i, j) == \/ Order[actions[i]] > Order[actions[j]]
                \/ (Order[actions[i]] = Order[actions[j]] /\ i < j)
Earlier(j) == {i \in DOMAIN actions : Before(i, j)}

LEMMA BeforeIsTotal ==
  ASSUME actions \in Seq(Compensations)
  PROVE  \A i, j, k \in DOMAIN actions :
           /\ ~Before(i, i)
           /\ i = j \/ Before(i, j) \/ Before(j, i)
           /\ Before(i, j) /\ Before(j, k) => Before(i, k)
<1>. DEFINE O(i) == Order[actions[i]]
<1>1. \A i \in DOMAIN actions : i \in Int /\ O(i) \in Int
  BY TransactionAssumption
<1>2. \A i, j : Before(i, j) <=> (O(i) > O(j) \/ (O(i) = O(j) /\ i < j))
  BY DEF Before
<1>. HIDE DEF O
<1>. QED  BY <1>1, <1>2

(* Every place of the sorted list is taken: different positions have different
   places, and there are as many places as positions. *)
LEMMA PlacesAreTaken ==
  ASSUME actions \in Seq(Compensations), NEW n \in DOMAIN actions
  PROVE  \E j \in DOMAIN actions : Cardinality(Earlier(j)) + 1 = n
<1>. DEFINE D == DOMAIN actions
            size(j) == Cardinality(Earlier(j))
            place == [j \in D |-> size(j) + 1]
<1>1. Len(actions) \in Nat /\ D = 1..Len(actions)
  BY LenProperties
<1>2. IsFiniteSet(D) /\ Cardinality(D) = Len(actions)
  <2>1. 1 \in Int /\ Len(actions) \in Int
    BY <1>1
  <2>2. /\ IsFiniteSet(1..Len(actions))
        /\ Cardinality(1..Len(actions)) = IF 1 > Len(actions) THEN 0 ELSE Len(actions) - 1 + 1
    BY <2>1, FS_Interval, Zenon
  <2>. QED  BY <1>1, <2>2
<1>3. ASSUME NEW j \in D
      PROVE  IsFiniteSet(Earlier(j)) /\ size(j) \in Nat /\ size(j) < Len(actions)
  <2>1. Earlier(j) \in SUBSET D /\ Earlier(j) # D
    BY BeforeIsTotal, Zenon DEF Earlier
  <2>2. /\ IsFiniteSet(Earlier(j)) /\ size(j) <= Cardinality(D)
        /\ Cardinality(D) # size(j)
    BY <1>2, <2>1, FS_Subset, Zenon
  <2>3. size(j) \in Nat
    BY <2>2, FS_CardinalityType, Zenon
  <2>. HIDE DEF size
  <2>. QED  BY <1>1, <1>2, <2>2, <2>3
<1>4. ASSUME NEW i \in D, NEW j \in D, Before(i, j)
      PROVE  size(i) < size(j)
  <2>1. Earlier(i) \in SUBSET Earlier(j) /\ Earlier(i) # Earlier(j)
    BY <1>4, BeforeIsTotal, Zenon DEF Earlier
  <2>2. size(i) <= size(j) /\ size(j) # size(i)
    BY <1>3, <2>1, FS_Subset, Zenon
  <2>. HIDE DEF size
  <2>. QED  BY <1>3, <2>2
<1>. HIDE DEF size
<1>5. place \in [D -> D]
  BY <1>1, <1>3
<1>6. ASSUME NEW i \in D, NEW j \in D, place[i] = place[j]
      PROVE  i = j
  <2>1. size(i) = size(j)
    BY <1>3, <1>6
  <2>2. ~Before(i, j) /\ ~Before(j, i)
    BY <1>3, <1>4, <2>1
  <2>. QED  BY <2>2, BeforeIsTotal, Zenon
<1>. HIDE DEF place
<1>7. place \in Injection(D, D)
  BY <1>5, <1>6, Zenon DEF Injection, IsInjective
<1>8. place \in Surjection(D, D)
  BY <1>2, <1>7, FS_Injection, Zenon
<1>9. PICK j \in D : place[j] = n
  BY <1>8, Zenon DEF Surjection
<1>. QED  BY <1>9 DEF place, size

(* The sorted list holds compensations that were registered. *)
LEMMA SortedAreActions ==
  ASSUME actions \in Seq(Compensations)
  PROVE  /\ SortedActions \in Seq(Compensations)
         /\ \A n \in DOMAIN SortedActions : SortedActions[n] \in Range(actions)
<1>. DEFINE At(n) == CHOOSE j \in DOMAIN actions : Cardinality(Earlier(j)) + 1 = n
<1>1. SortedActions = [n \in DOMAIN actions |-> actions[At(n)]]
  BY DEF SortedActions, Earlier, Before
<1>2. \A n \in DOMAIN actions : At(n) \in DOMAIN actions
  BY PlacesAreTaken, Zenon
<1>. HIDE DEF At
<1>3. Len(actions) \in Nat /\ DOMAIN actions = 1..Len(actions) /\ actions \in [1..Len(actions) -> Compensations]
  BY LenProperties
<1>4. SortedActions \in [1..Len(actions) -> Compensations]
  BY <1>1, <1>2, <1>3
<1>5. SortedActions \in Seq(Compensations)
  BY <1>3, <1>4, SeqDef, Zenon
<1>. QED  BY <1>1, <1>2, <1>5, Zenon DEF Range

(* What is left of a loop over compensations is part of it. *)
LEMMA SkipKeeps ==
  ASSUME NEW todo \in Seq(Compensations), NEW done, NEW A, \A n \in DOMAIN todo : todo[n] \in A
  PROVE  /\ Skip(todo, done) \in Seq(Compensations)
         /\ \A n \in DOMAIN Skip(todo, done) : Skip(todo, done)[n] \in A
<1>. DEFINE open == {i \in DOMAIN todo : todo[i] \notin done}
            m == Min(open)
            s == SubSeq(todo, m, Len(todo))
<1>1. CASE open = {}
  BY <1>1 DEF Skip
<1>2. CASE open # {}
  <2>1. Len(todo) \in Nat /\ DOMAIN todo = 1..Len(todo)
    BY LenProperties
  <2>2. m \in open
    <3>1. open \subseteq Nat
      BY <2>1
    <3>. HIDE DEF open
    <3>. QED  BY <1>2, <3>1, MinExists, Zenon
  <2>. HIDE DEF m
  <2>3. m \in 1..Len(todo)
    BY <2>1, <2>2
  <2>. HIDE DEF open
  <2>4. /\ s \in Seq(Compensations) /\ Len(s) = Len(todo) - m + 1
        /\ \A i \in 1..(Len(todo) - m + 1) : s[i] = todo[m + i - 1]
    <3>1. m \in Int /\ Len(todo) \in Int /\ m <= Len(todo)
      BY <2>1, <2>3
    <3>2. \A i \in m..Len(todo) : todo[i] \in Compensations
      BY <2>1, <2>3
    <3>3. /\ s \in Seq(Compensations) /\ Len(s) = IF m <= Len(todo) THEN Len(todo) - m + 1 ELSE 0
          /\ \A i \in 1..(Len(todo) - m + 1) : s[i] = todo[m + i - 1]
      BY <3>1, <3>2, SubSeqProperties
    <3>. QED  BY <3>1, <3>3, Zenon
  <2>5. DOMAIN s = 1..Len(s)
    BY <2>4, LenProperties
  <2>. HIDE DEF s
  <2>6. ASSUME NEW i \in DOMAIN s
        PROVE  s[i] \in A
    <3>1. m + i - 1 \in DOMAIN todo /\ s[i] = todo[m + i - 1]
      BY <2>1, <2>3, <2>4, <2>5
    <3>. QED  BY <3>1
  <2>7. Skip(todo, done) = s
    BY <1>2, Zenon DEF Skip, open, m, s
  <2>. QED  BY <2>4, <2>6, <2>7
<1>. QED  BY <1>1, <1>2

-----------------------------------------------------------------------------
(* Typed outcomes.  A call that is suspended in a loop has a handler in flight,
   of a participant on the roster or of a registered compensation, and the
   second rollback of a failed commit has participants to go over. *)

Typed(f) ==
  /\ f \in Frame
  /\ f.op # "idle" => f.todo # <<>>
  /\ f.op \in {"prepare", "commit", "rollback"} => \A n \in DOMAIN f.todo : f.todo[n] \in Range(roster)
  /\ f.op = "compensate" => /\ f.todo \in Seq(Compensations)
                            /\ \A n \in DOMAIN f.todo : f.todo[n] \in Range(actions)
  /\ f.op = "prepare" => f.then \in {"return", "commit"}
  /\ f.op \in {"rollback", "compensate"} => f.then \in {"return", "inner", "outer"}
  /\ f.then = "inner" => roster # <<>>

By == {"none", "prepare", "commit", "rollback", "exit", "unwind"}
TypedOutcome(o) == o.life \in Life /\ Typed(o.frame)
Lists == roster \in Seq(Participants) /\ actions \in Seq(Compensations)

TInv == TypeOK /\ \A c \in Callers : Typed(pc[c])

LEMMA ReturnTyped ==
  ASSUME NEW l \in Life, NEW r
  PROVE  TypedOutcome(Return(l, r))
<1>1. Return(l, r).life = l /\ Return(l, r).frame = Idle
  BY DEF Return
<1>2. Typed(Idle)
  BY DEF Typed, Idle, Frame
<1>. QED  BY <1>1, <1>2, Zenon DEF TypedOutcome

LEMMA SuspendTyped ==
  ASSUME NEW l \in Life, NEW f, Typed(f)
  PROVE  TypedOutcome(Suspend(l, f))
<1>1. Suspend(l, f).life = l /\ Suspend(l, f).frame = f
  BY DEF Suspend
<1>. QED  BY <1>1, Zenon DEF TypedOutcome

LEMMA LoopTyped ==
  ASSUME Lists, roster # <<>>, NEW l \in Life, NEW by \in By,
         NEW op \in {"prepare", "commit", "rollback"}, NEW then \in {"return", "commit", "inner", "outer"},
         op = "prepare" => then \in {"return", "commit"},
         op = "rollback" => then \in {"return", "inner", "outer"}
  PROVE  TypedOutcome(Suspend(l, Loop(op, roster, then, by)))
<1>. DEFINE f == Loop(op, roster, then, by)
<1>1. /\ f.op = op /\ f.todo = roster /\ f.size = Len(roster) /\ f.then = then /\ f.by = by
      /\ f = [op |-> op, todo |-> roster, size |-> Len(roster), then |-> then, by |-> by]
  BY DEF Loop
<1>2. roster \in Seq(Participants \cup Compensations) /\ Len(roster) \in Nat
  BY SeqMonotonic, LenProperties, Zenon DEF Lists
<1>. HIDE DEF f
<1>3. f \in Frame
  BY <1>1, <1>2 DEF Frame, By
<1>4. \A n \in DOMAIN roster : roster[n] \in Range(roster)
  BY Zenon DEF Range
<1>5. Typed(f)
  BY <1>1, <1>3, <1>4 DEF Typed
<1>6. TypedOutcome(Suspend(l, f))
  BY <1>5, SuspendTyped
<1>. QED  BY <1>6 DEF f

LEMMA EnterCommitTyped ==
  ASSUME Lists, NEW by \in By
  PROVE  TypedOutcome(EnterCommit(by))
<1>1. "committed" \in Life /\ "committing" \in Life
  BY DEF Life
<1>. QED  BY <1>1, ReturnTyped, LoopTyped DEF EnterCommit

LEMMA AfterPrepareTyped ==
  ASSUME Lists, NEW ok \in BOOLEAN, NEW then \in {"return", "commit"}, NEW by \in By
  PROVE  TypedOutcome(AfterPrepare(ok, then, by))
<1>1. "failed" \in Life /\ "prepared" \in Life
  BY DEF Life
<1>2. \/ AfterPrepare(ok, then, by) = Return("failed", "false")
      \/ AfterPrepare(ok, then, by) = Return("prepared", "true")
      \/ AfterPrepare(ok, then, by) = EnterCommit(by)
  BY DEF AfterPrepare
<1>. QED  BY <1>1, <1>2, ReturnTyped, EnterCommitTyped, Zenon

LEMMA EnterPrepareTyped ==
  ASSUME Lists, NEW then \in {"return", "commit"}, NEW by \in By
  PROVE  TypedOutcome(EnterPrepare(then, by))
<1>1. CASE roster = <<>>
  <2>1. EnterPrepare(then, by) = AfterPrepare(TRUE, then, by)
    BY <1>1 DEF EnterPrepare
  <2>. QED  BY <2>1, AfterPrepareTyped, Zenon
<1>2. CASE roster # <<>>
  <2>1. EnterPrepare(then, by) = Suspend("preparing", Loop("prepare", roster, then, by)) /\ "preparing" \in Life
    BY <1>2 DEF EnterPrepare, Life
  <2>. QED  BY <1>2, <2>1, LoopTyped
<1>. QED  BY <1>1, <1>2

LEMMA SecondRollbackTyped ==
  ASSUME Lists, roster # <<>>, NEW by \in By
  PROVE  TypedOutcome(SecondRollback(by))
<1>1. "rolling_back" \in Life
  BY DEF Life
<1>. QED  BY <1>1, LoopTyped DEF SecondRollback

LEMMA AfterRollbackTyped ==
  ASSUME Lists, NEW ok \in BOOLEAN, NEW then \in {"return", "inner", "outer"}, NEW by \in By,
         then = "inner" => roster # <<>>
  PROVE  TypedOutcome(AfterRollback(ok, then, by))
<1>. DEFINE l == IF ok THEN "rolled_back" ELSE "failed"
<1>1. l \in Life
  BY DEF Life
<1>2. \/ \E r : AfterRollback(ok, then, by) = Return(l, r)
      \/ then = "inner" /\ AfterRollback(ok, then, by) = SecondRollback(by)
  BY DEF AfterRollback
<1>. HIDE DEF l
<1>. QED  BY <1>1, <1>2, ReturnTyped, SecondRollbackTyped, Zenon

(* A loop over compensations that is not empty. *)
LEMMA CompensateTyped ==
  ASSUME Lists, NEW l \in Life, NEW f, f.op = "compensate",
         f = [op |-> f.op, todo |-> f.todo, size |-> f.size, then |-> f.then, by |-> f.by],
         f.size \in Nat, f.by \in By, f.then \in {"return", "inner", "outer"},
         f.then = "inner" => roster # <<>>,
         f.todo \in Seq(Compensations), f.todo # <<>>, \A n \in DOMAIN f.todo : f.todo[n] \in Range(actions)
  PROVE  TypedOutcome(Suspend(l, f))
<1>1. f.todo \in Seq(Participants \cup Compensations)
  BY SeqMonotonic, Zenon
<1>2. f \in Frame
  BY <1>1 DEF Frame, By
<1>3. Typed(f)
  BY <1>2 DEF Typed
<1>. QED  BY <1>3, SuspendTyped

LEMMA EnterCompensationTyped ==
  ASSUME Lists, NEW l \in Life, NEW then \in {"return", "inner", "outer"}, NEW by \in By,
         then = "inner" => roster # <<>>
  PROVE  TypedOutcome(EnterCompensation(l, then, by))
<1>. DEFINE todo == Skip(SortedActions, executed)
            f == Loop("compensate", todo, then, by)
<1>1. todo \in Seq(Compensations) /\ \A n \in DOMAIN todo : todo[n] \in Range(actions)
  BY SortedAreActions, SkipKeeps, Zenon DEF Lists
<1>2. EnterCompensation(l, then, by) = IF todo = <<>> THEN AfterRollback(TRUE, then, by) ELSE Suspend(l, f)
  BY Zenon DEF EnterCompensation
<1>. HIDE DEF todo
<1>3. /\ f.op = "compensate" /\ f.todo = todo /\ f.size = Len(roster) /\ f.then = then /\ f.by = by
      /\ f = [op |-> f.op, todo |-> f.todo, size |-> f.size, then |-> f.then, by |-> f.by]
  BY LoopFields
<1>4. Len(roster) \in Nat
  BY LenProperties DEF Lists
<1>. HIDE DEF f
<1>5. CASE todo = <<>>
  BY <1>2, <1>5, AfterRollbackTyped, Zenon
<1>6. CASE todo # <<>>
  <2>1. TypedOutcome(Suspend(l, f))
    BY <1>1, <1>3, <1>4, <1>6, CompensateTyped, Zenon
  <2>. QED  BY <1>2, <1>6, <2>1, Zenon
<1>. QED  BY <1>5, <1>6

LEMMA EnterRollbackTyped ==
  ASSUME Lists, NEW then \in {"return", "inner"}, NEW by \in By, then = "inner" => roster # <<>>
  PROVE  TypedOutcome(EnterRollback(then, by))
<1>1. "rolling_back" \in Life
  BY DEF Life
<1>2. CASE roster = <<>>
  <2>1. EnterRollback(then, by) = EnterCompensation("rolling_back", then, by)
    BY <1>2 DEF EnterRollback
  <2>. QED  BY <1>1, <1>2, <2>1, EnterCompensationTyped
<1>3. CASE roster # <<>>
  <2>1. EnterRollback(then, by) = Suspend("rolling_back", Loop("rollback", roster, then, by))
    BY <1>3 DEF EnterRollback
  <2>. QED  BY <1>1, <1>3, <2>1, LoopTyped
<1>. QED  BY <1>2, <1>3

LEMMA CommitFailedTyped ==
  ASSUME Lists, roster # <<>>, NEW by \in By
  PROVE  TypedOutcome(CommitFailed(by))
BY SecondRollbackTyped, EnterRollbackTyped DEF CommitFailed

(* The operations, in whatever state they are called. *)
LEMMA CallsTyped ==
  ASSUME Lists, life \in Life, NEW by \in By
  PROVE  /\ TypedOutcome(PrepareCall("return", by))
         /\ TypedOutcome(CommitCall(by))
         /\ TypedOutcome(RollbackCall(by))
<1>1. \/ PrepareCall("return", by) = EnterPrepare("return", by)
      \/ \E r : PrepareCall("return", by) = Return(life, r)
  BY DEF PrepareCall
<1>2. \/ CommitCall(by) = EnterPrepare("commit", by)
      \/ CommitCall(by) = EnterCommit(by)
      \/ CommitCall(by) = EnterRollback("return", by)
      \/ \E r : CommitCall(by) = Return(life, r)
  BY DEF CommitCall
<1>3. \/ RollbackCall(by) = EnterRollback("return", by)
      \/ \E r : RollbackCall(by) = Return(life, r)
  BY DEF RollbackCall
<1>4. /\ TypedOutcome(EnterPrepare("return", by)) /\ TypedOutcome(EnterPrepare("commit", by))
      /\ TypedOutcome(EnterCommit(by)) /\ TypedOutcome(EnterRollback("return", by))
      /\ \A r : TypedOutcome(Return(life, r))
  BY EnterPrepareTyped, EnterCommitTyped, EnterRollbackTyped, ReturnTyped
<1>. QED  BY <1>1, <1>2, <1>3, <1>4, Zenon

-----------------------------------------------------------------------------
(* The steps, by any number of callers. *)

LEMMA TInvLists ==
  ASSUME TInv
  PROVE  Lists /\ life \in Life
BY Zenon DEF TInv, TypeOK, Lists

LEMMA ApplyTyped ==
  ASSUME TInv, NEW c \in Callers, NEW o, NEW by, Apply(c, o, by), TypedOutcome(o),
         UNCHANGED <<roster, actions>>
  PROVE  /\ life' \in Life /\ pc' \in [Callers -> Frame]
         /\ scope' \in {"none", "open", "closing", "closed"} /\ live' \in BOOLEAN
         /\ counted' \subseteq {"committed", "rolled_back", "failed"}
         /\ \A d \in Callers : Typed(pc[d])'
<1>1. /\ life' = o.life /\ pc' = [pc EXCEPT ![c] = o.frame] /\ counted' = counted \cup Totals(by, o.ret)
  BY Zenon DEF Apply
<1>2. /\ pc \in [Callers -> Frame] /\ scope \in {"none", "open", "closing", "closed"}
      /\ counted \subseteq {"committed", "rolled_back", "failed"} /\ live \in BOOLEAN
      /\ \A d \in Callers : Typed(pc[d])
  BY Zenon DEF TInv, TypeOK
<1>3. o.life \in Life /\ Typed(o.frame) /\ o.frame \in Frame
  BY Zenon DEF TypedOutcome, Typed
<1>4. pc' \in [Callers -> Frame] /\ \A d \in Callers : pc'[d] = IF d = c THEN o.frame ELSE pc[d]
  BY <1>1, <1>2, <1>3, Zenon
<1>5. ASSUME NEW d \in Callers
      PROVE  Typed(pc[d])'
  <2>1. Typed(pc'[d])
    BY <1>2, <1>3, <1>4, Zenon
  <2>. QED  BY <2>1, Zenon DEF Typed
<1>6. Totals(by, o.ret) \subseteq {"committed", "rolled_back", "failed"}
  BY DEF Totals
<1>7. scope' \in {"none", "open", "closing", "closed"}
  BY <1>2 DEF Apply
<1>8. live' \in BOOLEAN
  BY Zenon DEF Apply
<1>9. counted' \subseteq {"committed", "rolled_back", "failed"}
  BY <1>1, <1>2, <1>6, Zenon
<1>. QED  BY <1>1, <1>3, <1>4, <1>5, <1>7, <1>8, <1>9, Zenon

LEMMA CallTyped ==
  ASSUME TInv, NEW c \in Callers,
         Prepare(c) \/ CommitTransaction(c) \/ RollbackTransaction(c) \/ ScopeExit(c)
  PROVE  TInv'
<1>1. UNCHANGED CallVars
  BY Zenon DEF Prepare, CommitTransaction, RollbackTransaction, ScopeExit
<1>2. UNCHANGED <<roster, prepared, actions, executed, known, effect, runs, cancelled>>
  BY <1>1 DEF CallVars
<1>3. Lists /\ life \in Life
  BY TInvLists
<1>4. \A by \in By : /\ TypedOutcome(PrepareCall("return", by)) /\ TypedOutcome(CommitCall(by))
                     /\ TypedOutcome(RollbackCall(by))
  BY <1>3, CallsTyped, Zenon
<1>5. PICK o, by : Apply(c, o, by) /\ TypedOutcome(o)
  <2>1. {"prepare", "commit", "rollback", "exit", "unwind"} \subseteq By
    BY DEF By
  <2>2. CASE Prepare(c)
    BY <1>4, <2>1, <2>2, Zenon DEF Prepare
  <2>3. CASE CommitTransaction(c)
    BY <1>4, <2>1, <2>3, Zenon DEF CommitTransaction
  <2>4. CASE RollbackTransaction(c)
    BY <1>4, <2>1, <2>4, Zenon DEF RollbackTransaction
  <2>5. CASE ScopeExit(c)
    <3>1. \/ Apply(c, CommitCall("exit"), "exit") \/ Apply(c, RollbackCall("unwind"), "unwind")
          \/ Apply(c, Return(life, "cancelled"), "unwind")
      BY <2>5, Zenon DEF ScopeExit
    <3>2. TypedOutcome(Return(life, "cancelled"))
      BY <1>3, ReturnTyped, Zenon
    <3>. QED  BY <1>4, <2>1, <3>1, <3>2, Zenon
  <2>. QED  BY <2>2, <2>3, <2>4, <2>5, Zenon
<1>6. /\ life' \in Life /\ pc' \in [Callers -> Frame]
      /\ scope' \in {"none", "open", "closing", "closed"} /\ live' \in BOOLEAN
      /\ counted' \subseteq {"committed", "rolled_back", "failed"}
      /\ \A d \in Callers : Typed(pc[d])'
  BY <1>2, <1>5, ApplyTyped, Zenon
<1>. QED  BY <1>2, <1>6, Zenon DEF TInv, TypeOK

LEMMA CallCancelledTyped ==
  ASSUME TInv, NEW c \in Callers, CallCancelled(c)
  PROVE  TInv'
<1>1. /\ Apply(c, Return(life, "cancelled"), pc[c].by) /\ cancelled' = TRUE
      /\ UNCHANGED <<roster, prepared, actions, executed, known, effect, runs>>
  BY Zenon DEF CallCancelled
<1>2. TypedOutcome(Return(life, "cancelled"))
  BY TInvLists, ReturnTyped, Zenon
<1>3. /\ life' \in Life /\ pc' \in [Callers -> Frame]
      /\ scope' \in {"none", "open", "closing", "closed"} /\ live' \in BOOLEAN
      /\ counted' \subseteq {"committed", "rolled_back", "failed"}
      /\ \A d \in Callers : Typed(pc[d])'
  BY <1>1, <1>2, ApplyTyped, Zenon
<1>. QED  BY <1>1, <1>3, Zenon DEF TInv, TypeOK

(* The loop a handler answers in. *)
LEMMA LoopInFlight ==
  ASSUME TInv, NEW c \in Callers, pc[c].op # "idle"
  PROVE  LET f == pc[c]
         IN  /\ f \in Frame /\ f.then \in {"return", "commit", "inner", "outer"} /\ f.by \in By
             /\ f = [op |-> f.op, todo |-> f.todo, size |-> f.size, then |-> f.then, by |-> f.by]
             /\ f.size \in Nat
             /\ f.op \in {"prepare", "commit", "rollback"} =>
                  Head(f.todo) \in Range(roster) /\ Head(f.todo) \in Participants /\ roster # <<>>
             /\ f.op = "compensate" => Head(f.todo) \in Range(actions) /\ Head(f.todo) \in Compensations
<1>. DEFINE f == pc[c]
<1>1. Typed(f) /\ Lists
  BY TInvLists, Zenon DEF TInv
<1>. HIDE DEF f
<1>2. /\ f \in Frame /\ f.then \in {"return", "commit", "inner", "outer"} /\ f.by \in By /\ f.size \in Nat
      /\ f = [op |-> f.op, todo |-> f.todo, size |-> f.size, then |-> f.then, by |-> f.by]
      /\ f.todo \in Seq(Participants \cup Compensations)
  BY <1>1 DEF Typed, Frame, By
<1>3. f.todo # <<>>
  BY <1>1 DEF Typed, f
<1>4. 1 \in DOMAIN f.todo /\ Head(f.todo) = f.todo[1]
  BY <1>2, <1>3
<1>5. f.op \in {"prepare", "commit", "rollback"} => Head(f.todo) \in Range(roster)
  BY <1>1, <1>4, Zenon DEF Typed
<1>6. f.op = "compensate" => Head(f.todo) \in Range(actions)
  BY <1>1, <1>4, Zenon DEF Typed
<1>7. /\ \A i \in DOMAIN roster : roster[i] \in Participants
      /\ \A i \in DOMAIN actions : actions[i] \in Compensations
      /\ roster = <<>> => DOMAIN roster = {}
  BY <1>1 DEF Lists
<1>8. Range(roster) \subseteq Participants /\ Range(actions) \subseteq Compensations
      /\ (roster = <<>> => Range(roster) = {})
  BY <1>7, Zenon DEF Range
<1>9. /\ f.op \in {"prepare", "commit", "rollback"} =>
           Head(f.todo) \in Range(roster) /\ Head(f.todo) \in Participants /\ roster # <<>>
      /\ f.op = "compensate" => Head(f.todo) \in Range(actions) /\ Head(f.todo) \in Compensations
  BY <1>5, <1>6, <1>8, Zenon
<1>. QED  BY <1>2, <1>9, Zenon DEF f

(* The next handler of a loop over participants. *)
LEMMA ContinueTyped ==
  ASSUME life \in Life, NEW f, Typed(f), f.op \in {"prepare", "commit", "rollback"}, Len(f.todo) > 1
  PROVE  TypedOutcome(Continue(f))
<1>. DEFINE q == f.todo
            t == Tail(q)
            g == [f EXCEPT !.todo = t]
<1>1. f \in Frame /\ q \in Seq(Participants \cup Compensations) /\ Len(q) > 1
      /\ \A n \in DOMAIN q : q[n] \in Range(roster)
  BY DEF Typed, Frame
<1>2. Continue(f) = Suspend(life, g)
  BY DEF Continue
<1>. HIDE DEF q
<1>3. /\ t \in Seq(Participants \cup Compensations) /\ t # <<>>
      /\ \A n \in DOMAIN t : n + 1 \in DOMAIN q /\ t[n] = q[n + 1]
  <2>1. q # <<>>
    BY <1>1
  <2>2. /\ t \in Seq(Participants \cup Compensations) /\ Len(t) = Len(q) - 1
        /\ \A n \in 1..Len(t) : t[n] = q[n + 1]
    BY <1>1, <2>1, HeadTailProperties
  <2>. HIDE DEF t
  <2>3. DOMAIN q = 1..Len(q) /\ DOMAIN t = 1..Len(t) /\ Len(q) \in Nat
    BY <1>1, <2>2
  <2>. QED  BY <1>1, <2>2, <2>3
<1>. HIDE DEF t
<1>4. g \in Frame /\ g.op = f.op /\ g.then = f.then /\ g.todo = t
  BY <1>1, <1>3, Zenon DEF Frame
<1>. HIDE DEF g
<1>5. \A n \in DOMAIN t : t[n] \in Range(roster)
  BY <1>1, <1>3, Zenon
<1>6. Typed(g)
  BY <1>3, <1>4, <1>5 DEF Typed
<1>. QED  BY <1>2, <1>6, SuspendTyped, Zenon

LEMMA PrepareAnswerTyped ==
  ASSUME TInv, NEW c \in Callers, NEW ok \in BOOLEAN, PrepareAnswer(c, ok)
  PROVE  TInv'
<1>. DEFINE f == pc[c]
            fine == ok /\ ~Resized(f)
            o == IF ok /\ ~Resized(f) /\ Len(f.todo) > 1 THEN Continue(f)
                 ELSE AfterPrepare(fine, f.then, f.by)
<1>1. /\ f.op = "prepare" /\ prepared' = IF ok THEN prepared \cup {Head(f.todo)} ELSE prepared
      /\ Apply(c, o, f.by) /\ UNCHANGED <<roster, actions, executed, known, effect, runs, cancelled>>
  BY Zenon DEF PrepareAnswer
<1>2. Lists /\ life \in Life /\ Typed(f) /\ f.by \in By /\ Head(f.todo) \in Range(roster)
  BY <1>1, TInvLists, LoopInFlight, Zenon DEF TInv
<1>. HIDE DEF f
<1>3. TypedOutcome(o)
  <2>1. CASE ok /\ ~Resized(f) /\ Len(f.todo) > 1
    BY <1>1, <1>2, <2>1, ContinueTyped
  <2>2. CASE ~(ok /\ ~Resized(f) /\ Len(f.todo) > 1)
    <3>1. f.then \in {"return", "commit"} /\ fine \in BOOLEAN
      BY <1>1, <1>2, Zenon DEF Typed
    <3>. HIDE DEF fine
    <3>2. TypedOutcome(AfterPrepare(fine, f.then, f.by))
      BY <1>2, <3>1, AfterPrepareTyped, Zenon
    <3>. QED  BY <2>2, <3>2, Zenon
  <2>. QED  BY <2>1, <2>2, Zenon
<1>. HIDE DEF o
<1>4. /\ life' \in Life /\ pc' \in [Callers -> Frame]
      /\ scope' \in {"none", "open", "closing", "closed"} /\ live' \in BOOLEAN
      /\ counted' \subseteq {"committed", "rolled_back", "failed"}
      /\ \A d \in Callers : Typed(pc[d])'
  BY <1>1, <1>3, ApplyTyped, Zenon
<1>5. prepared' \subseteq Range(roster)
  BY <1>1, <1>2, Zenon DEF TInv, TypeOK
<1>. QED  BY <1>1, <1>4, <1>5, Zenon DEF TInv, TypeOK

LEMMA CommitAnswerTyped ==
  ASSUME TInv, NEW c \in Callers, NEW ok \in BOOLEAN, CommitAnswer(c, ok)
  PROVE  TInv'
<1>. DEFINE f == pc[c]
            o == CASE ~ok \/ Resized(f) -> CommitFailed(f.by)
                   [] ok /\ ~Resized(f) /\ Len(f.todo) > 1 -> Continue(f)
                   [] OTHER -> Return("committed", "true")
<1>1. /\ f.op = "commit" /\ effect' = IF ok THEN [effect EXCEPT ![Head(f.todo)] = "committed"] ELSE effect
      /\ Apply(c, o, f.by) /\ UNCHANGED <<roster, prepared, actions, executed, known, runs, cancelled>>
  BY Zenon DEF CommitAnswer
<1>2. /\ Lists /\ life \in Life /\ Typed(f) /\ f.by \in By /\ roster # <<>>
      /\ Head(f.todo) \in Participants
  BY <1>1, TInvLists, LoopInFlight, Zenon DEF TInv
<1>. HIDE DEF f
<1>3. TypedOutcome(o)
  <2>1. TypedOutcome(CommitFailed(f.by)) /\ TypedOutcome(Return("committed", "true"))
    BY <1>2, CommitFailedTyped, ReturnTyped DEF Life
  <2>2. Len(f.todo) > 1 => TypedOutcome(Continue(f))
    BY <1>1, <1>2, ContinueTyped
  <2>3. \/ o = CommitFailed(f.by) \/ o = Return("committed", "true")
        \/ Len(f.todo) > 1 /\ o = Continue(f)
    BY Zenon
  <2>. HIDE DEF o
  <2>. QED  BY <2>1, <2>2, <2>3, Zenon
<1>. HIDE DEF o
<1>4. /\ life' \in Life /\ pc' \in [Callers -> Frame]
      /\ scope' \in {"none", "open", "closing", "closed"} /\ live' \in BOOLEAN
      /\ counted' \subseteq {"committed", "rolled_back", "failed"}
      /\ \A d \in Callers : Typed(pc[d])'
  BY <1>1, <1>3, ApplyTyped, Zenon
<1>5. effect \in [Participants -> {"none", "committed", "undone"}]
  BY Zenon DEF TInv, TypeOK
<1>6. effect' \in [Participants -> {"none", "committed", "undone"}]
  BY <1>1, <1>2, <1>5
<1>. QED  BY <1>1, <1>4, <1>6, Zenon DEF TInv, TypeOK

LEMMA RollbackAnswerTyped ==
  ASSUME TInv, NEW c \in Callers, RollbackAnswer(c)
  PROVE  TInv'
<1>. DEFINE f == pc[c]
            o == CASE Resized(f) -> AfterRollback(FALSE, f.then, f.by)
                   [] ~Resized(f) /\ Len(f.todo) > 1 -> Continue(f)
                   [] OTHER -> EnterCompensation(life, f.then, f.by)
<1>1. /\ f.op = "rollback" /\ effect' = [effect EXCEPT ![Head(f.todo)] = "undone"]
      /\ Apply(c, o, f.by) /\ UNCHANGED <<roster, prepared, actions, executed, known, runs, cancelled>>
  BY Zenon DEF RollbackAnswer
<1>2. /\ Lists /\ life \in Life /\ Typed(f) /\ f.by \in By /\ roster # <<>>
      /\ Head(f.todo) \in Participants
  BY <1>1, TInvLists, LoopInFlight, Zenon DEF TInv
<1>. HIDE DEF f
<1>3. TypedOutcome(o)
  <2>1. f.then \in {"return", "inner", "outer"}
    BY <1>1, <1>2, Zenon DEF Typed
  <2>2. TypedOutcome(AfterRollback(FALSE, f.then, f.by)) /\ TypedOutcome(EnterCompensation(life, f.then, f.by))
    BY <1>2, <2>1, AfterRollbackTyped, EnterCompensationTyped, Zenon
  <2>3. Len(f.todo) > 1 => TypedOutcome(Continue(f))
    BY <1>1, <1>2, ContinueTyped
  <2>4. \/ o = AfterRollback(FALSE, f.then, f.by) \/ o = EnterCompensation(life, f.then, f.by)
        \/ Len(f.todo) > 1 /\ o = Continue(f)
    BY Zenon
  <2>. HIDE DEF o
  <2>. QED  BY <2>2, <2>3, <2>4, Zenon
<1>. HIDE DEF o
<1>4. /\ life' \in Life /\ pc' \in [Callers -> Frame]
      /\ scope' \in {"none", "open", "closing", "closed"} /\ live' \in BOOLEAN
      /\ counted' \subseteq {"committed", "rolled_back", "failed"}
      /\ \A d \in Callers : Typed(pc[d])'
  BY <1>1, <1>3, ApplyTyped, Zenon
<1>5. effect \in [Participants -> {"none", "committed", "undone"}]
  BY Zenon DEF TInv, TypeOK
<1>6. effect' \in [Participants -> {"none", "committed", "undone"}]
  BY <1>1, <1>2, <1>5
<1>. QED  BY <1>1, <1>4, <1>6, Zenon DEF TInv, TypeOK

LEMMA CompensationAnswerTyped ==
  ASSUME TInv, NEW c \in Callers, NEW ok \in BOOLEAN, CompensationAnswer(c, ok)
  PROVE  TInv'
<1>. DEFINE f == pc[c]
            k == Head(f.todo)
            rest == Skip(Tail(f.todo), executed')
            g == [f EXCEPT !.todo = rest]
            o == IF rest = <<>> THEN AfterRollback(TRUE, f.then, f.by) ELSE Suspend(life, g)
<1>1. /\ f.op = "compensate" /\ executed' = IF ok THEN executed \cup {k} ELSE executed
      /\ runs' = IF ok THEN [runs EXCEPT ![k] = IF @ = 2 THEN 2 ELSE @ + 1] ELSE runs
      /\ Apply(c, o, f.by) /\ UNCHANGED <<roster, prepared, actions, known, effect, cancelled>>
  BY Zenon DEF CompensationAnswer
<1>2. /\ Lists /\ life \in Life /\ Typed(f) /\ f.by \in By /\ f.size \in Nat
      /\ f = [op |-> f.op, todo |-> f.todo, size |-> f.size, then |-> f.then, by |-> f.by]
      /\ k \in Range(actions) /\ k \in Compensations
  BY <1>1, TInvLists, LoopInFlight, Zenon DEF TInv
<1>. HIDE DEF f
<1>3. /\ f.then \in {"return", "inner", "outer"} /\ (f.then = "inner" => roster # <<>>)
      /\ f.todo \in Seq(Compensations) /\ f.todo # <<>>
      /\ \A n \in DOMAIN f.todo : f.todo[n] \in Range(actions)
  BY <1>1, <1>2 DEF Typed
<1>4. rest \in Seq(Compensations) /\ \A n \in DOMAIN rest : rest[n] \in Range(actions)
  <2>. DEFINE t == Tail(f.todo)
  <2>1. /\ t \in Seq(Compensations) 
        /\ \A n \in DOMAIN t : n + 1 \in DOMAIN f.todo /\ t[n] = f.todo[n + 1]
    BY <1>3
  <2>. HIDE DEF t
  <2>2. \A n \in DOMAIN t : t[n] \in Range(actions)
    BY <1>3, <2>1, Zenon
  <2>3. Skip(t, executed') \in Seq(Compensations) /\ \A n \in DOMAIN Skip(t, executed') : Skip(t, executed')[n] \in Range(actions)
    BY <2>1, <2>2, SkipKeeps, Zenon
  <2>. QED  BY <2>3, Zenon DEF t
<1>. HIDE DEF rest
<1>5. /\ g.op = f.op /\ g.todo = rest /\ g.then = f.then /\ g.by = f.by /\ g.size = f.size
      /\ g = [op |-> g.op, todo |-> g.todo, size |-> g.size, then |-> g.then, by |-> g.by]
  BY <1>2
<1>. HIDE DEF g
<1>6. TypedOutcome(o)
  <2>1. CASE rest = <<>>
    <3>1. o = AfterRollback(TRUE, f.then, f.by)
      BY <2>1, Zenon
    <3>. QED  BY <1>2, <1>3, <3>1, AfterRollbackTyped, Zenon
  <2>2. CASE rest # <<>>
    <3>1. o = Suspend(life, g)
      BY <2>2, Zenon
    <3>. HIDE DEF o
    <3>. QED  BY <1>1, <1>2, <1>3, <1>4, <1>5, <2>2, <3>1, CompensateTyped, Zenon
  <2>. QED  BY <2>1, <2>2, Zenon
<1>. HIDE DEF o
<1>7. /\ life' \in Life /\ pc' \in [Callers -> Frame]
      /\ scope' \in {"none", "open", "closing", "closed"} /\ live' \in BOOLEAN
      /\ counted' \subseteq {"committed", "rolled_back", "failed"}
      /\ \A d \in Callers : Typed(pc[d])'
  BY <1>1, <1>6, ApplyTyped, Zenon
<1>. HIDE DEF k
<1>8. executed' \subseteq Range(actions)
  BY <1>1, <1>2, Zenon DEF TInv, TypeOK
<1>9. runs \in [Compensations -> 0..2]
  BY Zenon DEF TInv, TypeOK
<1>10. runs' \in [Compensations -> 0..2]
  <2>. DEFINE v == IF runs[k] = 2 THEN 2 ELSE runs[k] + 1
  <2>1. v \in 0..2
    BY <1>2, <1>9
  <2>2. runs' = [runs EXCEPT ![k] = v] \/ runs' = runs
    BY <1>1
  <2>. HIDE DEF v
  <2>. QED  BY <1>2, <1>9, <2>1, <2>2
<1>. QED  BY <1>1, <1>7, <1>8, <1>10, Zenon DEF TInv, TypeOK

(* A list without repetitions that gets a new element at its end. *)
LEMMA AppendNew ==
  ASSUME NEW S, NEW s \in Seq(S), IsInjective(s), NEW x \in S, x \notin Range(s)
  PROVE  /\ Append(s, x) \in Seq(S) /\ IsInjective(Append(s, x))
         /\ Range(s) \subseteq Range(Append(s, x)) /\ Append(s, x) # <<>>
<1>. DEFINE t == Append(s, x)
<1>1. /\ t \in Seq(S) /\ t # <<>> /\ Len(s) \in Nat /\ DOMAIN s = 1..Len(s) /\ DOMAIN t = 1..(Len(s) + 1)
      /\ \A i \in 1..Len(s) : t[i] = s[i]
      /\ t[Len(s) + 1] = x
  BY AppendProperties, LenProperties
<1>. HIDE DEF t
<1>2. \A i \in DOMAIN t : (i \in DOMAIN s /\ t[i] = s[i] /\ t[i] # x) \/ (i = Len(s) + 1 /\ t[i] = x)
  <2>1. \A i \in DOMAIN s : s[i] # x
    BY Zenon DEF Range
  <2>2. \A i \in DOMAIN t : i \in DOMAIN s \/ i = Len(s) + 1
    BY <1>1
  <2>. QED  BY <1>1, <2>1, <2>2, Zenon
<1>3. IsInjective(t)
  BY <1>2, Zenon DEF IsInjective
<1>4. \A i \in DOMAIN s : i \in DOMAIN t /\ t[i] = s[i]
  BY <1>1
<1>5. Range(s) \subseteq Range(t)
  BY <1>4, Zenon DEF Range
<1>. QED  BY <1>1, <1>3, <1>5 DEF t

(* Lists that grow. *)
LEMMA GrowTyped ==
  ASSUME TInv, Range(roster) \subseteq Range(roster'), Range(actions) \subseteq Range(actions'),
         roster' = <<>> => roster = <<>>, UNCHANGED pc
  PROVE  \A c \in Callers : Typed(pc[c])'
<1>. SUFFICES ASSUME NEW c \in Callers PROVE Typed(pc[c])'
  OBVIOUS
<1>1. Typed(pc[c])
  BY Zenon DEF TInv
<1>. QED  BY <1>1, Zenon DEF Typed

LEMMA AddTyped ==
  ASSUME TInv,
         (\E p \in Participants : AddParticipant(p)) \/ (\E k \in Compensations : AddCompensation(k))
  PROVE  TInv'
<1>1. /\ roster \in Seq(Participants) /\ IsInjective(roster) /\ prepared \subseteq Range(roster)
      /\ actions \in Seq(Compensations) /\ IsInjective(actions) /\ executed \subseteq Range(actions)
  BY Zenon DEF TInv, TypeOK
<1>2. ASSUME NEW p \in Participants, AddParticipant(p)
      PROVE  TInv'
  <2>1. /\ p \notin Range(roster) /\ roster' = Append(roster, p)
        /\ UNCHANGED <<life, prepared, actions, executed, pc, scope, known, live, counted, effect, runs, cancelled>>
    BY <1>2, Zenon DEF AddParticipant
  <2>2. /\ roster' \in Seq(Participants) /\ IsInjective(roster')
        /\ Range(roster) \subseteq Range(roster') /\ roster' # <<>>
    BY <1>1, <2>1, AppendNew, Zenon
  <2>3. prepared' \subseteq Range(roster')
    BY <1>1, <2>1, <2>2, Zenon
  <2>4. \A c \in Callers : Typed(pc[c])'
    BY <2>1, <2>2, GrowTyped, Zenon
  <2>. QED  BY <2>1, <2>2, <2>3, <2>4, Zenon DEF TInv, TypeOK
<1>3. ASSUME NEW k \in Compensations, AddCompensation(k)
      PROVE  TInv'
  <2>1. /\ k \notin Range(actions) /\ actions' = Append(actions, k)
        /\ UNCHANGED <<life, roster, prepared, executed, pc, scope, known, live, counted, effect, runs, cancelled>>
    BY <1>3, Zenon DEF AddCompensation
  <2>2. /\ actions' \in Seq(Compensations) /\ IsInjective(actions')
        /\ Range(actions) \subseteq Range(actions')
    BY <1>1, <2>1, AppendNew, Zenon
  <2>3. executed' \subseteq Range(actions')
    BY <1>1, <2>1, <2>2, Zenon
  <2>4. \A c \in Callers : Typed(pc[c])'
    BY <2>1, <2>2, GrowTyped, Zenon
  <2>. QED  BY <2>1, <2>2, <2>3, <2>4, Zenon DEF TInv, TypeOK
<1>. QED  BY <1>2, <1>3, Zenon

(* The strengthened type invariant holds in every state. *)
LEMMA WellTyped == Spec => []TInv
<1>1. Init => TInv
  <2>. SUFFICES ASSUME Init PROVE TInv
    OBVIOUS
  <2>1. Typed(Idle) /\ Idle \in Frame
    BY DEF Typed, Idle, Frame
  <2>2. /\ roster \in Seq(Participants) /\ IsInjective(roster)
        /\ actions \in Seq(Compensations) /\ IsInjective(actions)
    BY DEF Init, IsInjective
  <2>3. life \in Life /\ scope \in {"none", "open", "closing", "closed"}
    BY DEF Init, Life
  <2>4. pc \in [Callers -> Frame] /\ \A c \in Callers : Typed(pc[c])
    BY <2>1, Zenon DEF Init
  <2>5. effect \in [Participants -> {"none", "committed", "undone"}] /\ runs \in [Compensations -> 0..2]
    BY DEF Init
  <2>6. prepared \subseteq Range(roster) /\ executed \subseteq Range(actions)
        /\ counted \subseteq {"committed", "rolled_back", "failed"}
    BY Zenon DEF Init
  <2>7. known \in BOOLEAN /\ live \in BOOLEAN /\ cancelled \in BOOLEAN
    BY Zenon DEF Init
  <2>. QED  BY <2>2, <2>3, <2>4, <2>5, <2>6, <2>7, Zenon DEF TInv, TypeOK
<1>2. ASSUME TInv, [Next]_vars
      PROVE  TInv'
  <2>1. ASSUME NEW c \in Callers, HandlerAnswers(c)
        PROVE  TInv'
    BY <1>2, <2>1, PrepareAnswerTyped, CommitAnswerTyped, CompensationAnswerTyped, RollbackAnswerTyped,
       Zenon DEF HandlerAnswers
  <2>2. ASSUME Cleanup \/ UNCHANGED vars
        PROVE  TInv'
    <3>1. /\ UNCHANGED <<life, roster, prepared, actions, executed, pc, scope, live, counted, effect, runs, cancelled>>
          /\ known' = FALSE \/ known' = known
      BY <2>2, Zenon DEF Cleanup, vars
    <3>2. \A c \in Callers : Typed(pc[c])'
      BY <1>2, <3>1, GrowTyped, Zenon
    <3>. QED  BY <1>2, <3>1, <3>2, Zenon DEF TInv, TypeOK
  <2>. QED  BY <1>2, <2>1, <2>2, CallTyped, CallCancelledTyped, AddTyped, Zenon DEF Next
<1>. QED  BY <1>1, <1>2, PTL DEF Spec

(* The state is well typed whatever the callers do at the same time: the lists
   have no repetitions, only participants on the roster are prepared, only
   registered compensations are executed, and the sorted list of compensations
   that a rollback goes over holds compensations. *)
THEOREM TypeCorrect == Spec => []TypeOK
<1>1. TInv => TypeOK
  BY DEF TInv
<1>. QED  BY <1>1, WellTyped, PTL

-----------------------------------------------------------------------------
(* Calls come to an end.  A call goes through its loops in one direction: prepare,
   commit, the first rollback of a failed commit and its compensations, the last
   rollback and its compensations. *)

Stage(f) ==
  CASE f.op = "prepare" -> 6
    [] f.op = "commit" -> 5
    [] f.op = "rollback" /\ f.then = "inner" -> 4
    [] f.op = "compensate" /\ f.then = "inner" -> 3
    [] f.op = "rollback" /\ f.then # "inner" -> 2
    [] f.op = "compensate" /\ f.then # "inner" -> 1
    [] OTHER -> 0

(* g is nearer to the end of the call than f. *)
Nearer(g, f) ==
  \/ Stage(g) < Stage(f)
  \/ Stage(g) = Stage(f) /\ Len(g.todo) < Len(f.todo)

(* Every answer of a handler brings the call it belongs to nearer to its return
   (transaction.py, _do_prepare, _do_commit, _do_rollback), and nothing else
   moves a suspended call: not other calls of the same transaction, not
   participants or compensations that are added meanwhile, not the cleanup.  A
   call that is cancelled is over at once. *)
CallsAdvance ==
  [][\A c \in Callers :
       /\ HandlerAnswers(c) => Nearer(pc'[c], pc[c])
       /\ CallCancelled(c) => pc'[c] = Idle
       /\ pc[c].op # "idle" => HandlerAnswers(c) \/ CallCancelled(c) \/ pc'[c] = pc[c]]_vars

LEMMA StageValues ==
  ASSUME NEW f
  PROVE  /\ Stage(f) \in 0..6
         /\ f.op = "prepare" => Stage(f) = 6
         /\ f.op = "commit" => Stage(f) = 5
         /\ f.op = "rollback" => Stage(f) = IF f.then = "inner" THEN 4 ELSE 2
         /\ f.op = "compensate" => Stage(f) = IF f.then = "inner" THEN 3 ELSE 1
         /\ f.op = "idle" => Stage(f) = 0
BY DEF Stage

(* The stage a call is in after the end of a loop. *)
LEMMA ReturnStage ==
  ASSUME NEW l, NEW r
  PROVE  Stage(Return(l, r).frame) = 0
<1>1. Return(l, r).frame = Idle /\ Idle.op = "idle"
  BY DEF Return, Idle
<1>. QED  BY <1>1, StageValues, Zenon

LEMMA LoopStage ==
  ASSUME NEW l, NEW op, NEW todo, NEW then, NEW by
  PROVE  LET s == Stage(Suspend(l, Loop(op, todo, then, by)).frame)
         IN  /\ op = "commit" => s = 5
             /\ op = "rollback" => s = IF then = "inner" THEN 4 ELSE 2
             /\ op = "compensate" => s = IF then = "inner" THEN 3 ELSE 1
<1>. DEFINE f == Suspend(l, Loop(op, todo, then, by)).frame
<1>1. f.op = op /\ f.then = then
  BY DEF Suspend, Loop
<1>. HIDE DEF f
<1>2. /\ op = "commit" => Stage(f) = 5
      /\ op = "rollback" => Stage(f) = IF then = "inner" THEN 4 ELSE 2
      /\ op = "compensate" => Stage(f) = IF then = "inner" THEN 3 ELSE 1
  BY <1>1, StageValues, Zenon
<1>. QED  BY <1>2, Zenon DEF f

LEMMA AfterPrepareStage ==
  ASSUME NEW ok \in BOOLEAN, NEW then \in {"return", "commit"}, NEW by
  PROVE  Stage(AfterPrepare(ok, then, by).frame) \in 0..5
<1>1. Stage(EnterCommit(by).frame) = 0 \/ Stage(EnterCommit(by).frame) = 5
  BY ReturnStage, LoopStage, Zenon DEF EnterCommit
<1>2. \/ AfterPrepare(ok, then, by) = Return("failed", "false")
      \/ AfterPrepare(ok, then, by) = Return("prepared", "true")
      \/ AfterPrepare(ok, then, by) = EnterCommit(by)
  BY DEF AfterPrepare
<1>3. Stage(AfterPrepare(ok, then, by).frame) = 0 \/ Stage(AfterPrepare(ok, then, by).frame) = 5
  BY <1>1, <1>2, ReturnStage, Zenon
<1>. QED  BY <1>3

LEMMA AfterRollbackStage ==
  ASSUME NEW ok \in BOOLEAN, NEW then \in {"return", "inner", "outer"}, NEW by
  PROVE  Stage(AfterRollback(ok, then, by).frame) = IF then = "inner" THEN 2 ELSE 0
<1>1. Stage(SecondRollback(by).frame) = 2
  BY LoopStage DEF SecondRollback
<1>2. IF then = "inner" THEN AfterRollback(ok, then, by) = SecondRollback(by)
      ELSE \E l, r : AfterRollback(ok, then, by) = Return(l, r)
  BY DEF AfterRollback
<1>. QED  BY <1>1, <1>2, ReturnStage, Zenon

LEMMA EnterCompensationStage ==
  ASSUME NEW l, NEW then \in {"return", "inner", "outer"}, NEW by
  PROVE  Stage(EnterCompensation(l, then, by).frame) \in IF then = "inner" THEN {2, 3} ELSE {0, 1}
<1>. DEFINE todo == Skip(SortedActions, executed)
<1>1. \/ EnterCompensation(l, then, by) = AfterRollback(TRUE, then, by)
      \/ EnterCompensation(l, then, by) = Suspend(l, Loop("compensate", todo, then, by))
  BY Zenon DEF EnterCompensation
<1>. HIDE DEF todo
<1>2. \/ Stage(EnterCompensation(l, then, by).frame) = IF then = "inner" THEN 2 ELSE 0
      \/ Stage(EnterCompensation(l, then, by).frame) = IF then = "inner" THEN 3 ELSE 1
  <2>1. /\ Stage(AfterRollback(TRUE, then, by).frame) = IF then = "inner" THEN 2 ELSE 0
        /\ Stage(Suspend(l, Loop("compensate", todo, then, by)).frame) = IF then = "inner" THEN 3 ELSE 1
    BY AfterRollbackStage, LoopStage, Zenon
  <2>. QED  BY <1>1, <2>1, Zenon
<1>. QED  BY <1>2, Zenon

LEMMA CommitFailedStage ==
  ASSUME NEW by
  PROVE  Stage(CommitFailed(by).frame) \in {2, 3, 4}
<1>1. Stage(SecondRollback(by).frame) = 2
  BY LoopStage DEF SecondRollback
<1>2. Stage(EnterCompensation("rolling_back", "inner", by).frame) \in {2, 3}
  BY EnterCompensationStage, Zenon
<1>3. \/ CommitFailed(by) = SecondRollback(by)
      \/ CommitFailed(by) = EnterCompensation("rolling_back", "inner", by)
      \/ CommitFailed(by) = Suspend("rolling_back", Loop("rollback", roster, "inner", by))
  BY Zenon DEF CommitFailed, EnterRollback
<1>4. Stage(Suspend("rolling_back", Loop("rollback", roster, "inner", by)).frame) = 4
  BY LoopStage
<1>. QED  BY <1>1, <1>2, <1>3, <1>4, Zenon

(* The next handler of the same loop. *)
LEMMA ShorterNearer ==
  ASSUME NEW f \in Frame, NEW t, Len(t) < Len(f.todo)
  PROVE  Nearer([f EXCEPT !.todo = t], f)
<1>. DEFINE g == [f EXCEPT !.todo = t]
<1>1. g.op = f.op /\ g.then = f.then /\ g.todo = t
  BY DEF Frame
<1>. HIDE DEF g
<1>2. Stage(g) = Stage(f)
  BY <1>1, Zenon DEF Stage
<1>3. Nearer(g, f)
  BY <1>1, <1>2, Zenon DEF Nearer
<1>. QED  BY <1>3, Zenon DEF g

LEMMA ContinueNearer ==
  ASSUME NEW f \in Frame, f.todo # <<>>
  PROVE  Nearer(Continue(f).frame, f)
<1>1. Continue(f).frame = [f EXCEPT !.todo = Tail(f.todo)]
  BY DEF Continue, Suspend
<1>2. f.todo \in Seq(Participants \cup Compensations)
  BY DEF Frame
<1>3. Len(Tail(f.todo)) < Len(f.todo)
  BY <1>2, HeadTailProperties, LenProperties
<1>4. Nearer([f EXCEPT !.todo = Tail(f.todo)], f)
  BY <1>3, ShorterNearer, Zenon
<1>. QED  BY <1>1, <1>4, Zenon

LEMMA SkipShortens ==
  ASSUME NEW todo \in Seq(Compensations), NEW done
  PROVE  Len(Skip(todo, done)) \in Nat /\ Len(Skip(todo, done)) <= Len(todo)
<1>. DEFINE open == {i \in DOMAIN todo : todo[i] \notin done}
            m == Min(open)
            s == SubSeq(todo, m, Len(todo))
<1>1. Len(todo) \in Nat /\ DOMAIN todo = 1..Len(todo)
  BY LenProperties
<1>2. CASE open = {}
  <2>1. Skip(todo, done) = <<>>
    BY <1>2, Zenon DEF Skip
  <2>. QED  BY <1>1, <2>1
<1>3. CASE open # {}
  <2>1. m \in open
    <3>1. open \subseteq Nat
      BY <1>1
    <3>. HIDE DEF open
    <3>. QED  BY <1>3, <3>1, MinExists, Zenon
  <2>. HIDE DEF m
  <2>2. m \in 1..Len(todo)
    BY <1>1, <2>1
  <2>. HIDE DEF open
  <2>3. Len(s) = Len(todo) - m + 1
    <3>1. m \in Int /\ Len(todo) \in Int /\ m <= Len(todo)
      BY <1>1, <2>2
    <3>2. \A i \in m..Len(todo) : todo[i] \in Compensations
      BY <1>1, <2>2
    <3>3. Len(s) = IF m <= Len(todo) THEN Len(todo) - m + 1 ELSE 0
      BY <3>1, <3>2, SubSeqProperties
    <3>. QED  BY <3>1, <3>3, Zenon
  <2>. HIDE DEF s
  <2>4. Skip(todo, done) = s
    BY <1>3, Zenon DEF Skip, open, m, s
  <2>. QED  BY <1>1, <2>2, <2>3, <2>4
<1>. QED  BY <1>2, <1>3

(* An answer applies an outcome to the call it belongs to and to no other. *)
LEMMA ApplyFrame ==
  ASSUME TInv, NEW c \in Callers, NEW o, NEW by, Apply(c, o, by)
  PROVE  pc'[c] = o.frame /\ \A d \in Callers \ {c} : pc'[d] = pc[d]
<1>1. pc \in [Callers -> Frame]
  BY Zenon DEF TInv, TypeOK
<1>2. pc' = [pc EXCEPT ![c] = o.frame]
  BY Zenon DEF Apply
<1>. QED  BY <1>1, <1>2

LEMMA PrepareAnswerNearer ==
  ASSUME TInv, NEW c \in Callers, NEW ok \in BOOLEAN, PrepareAnswer(c, ok)
  PROVE  Nearer(pc'[c], pc[c]) /\ \A d \in Callers \ {c} : pc'[d] = pc[d]
<1>. DEFINE f == pc[c]
            fine == ok /\ ~Resized(f)
            o == IF ok /\ ~Resized(f) /\ Len(f.todo) > 1 THEN Continue(f)
                 ELSE AfterPrepare(fine, f.then, f.by)
<1>1. f.op = "prepare" /\ Apply(c, o, f.by)
  BY Zenon DEF PrepareAnswer
<1>2. Typed(f)
  BY Zenon DEF TInv
<1>3. f \in Frame /\ f.todo # <<>> /\ f.then \in {"return", "commit"}
  BY <1>1, <1>2 DEF Typed
<1>. HIDE DEF f
<1>4. Nearer(Continue(f).frame, f)
  BY <1>3, ContinueNearer, Zenon
<1>5. Nearer(AfterPrepare(fine, f.then, f.by).frame, f)
  <2>1. Stage(f) = 6
    BY <1>1, StageValues, Zenon
  <2>2. fine \in BOOLEAN
    OBVIOUS
  <2>. HIDE DEF fine
  <2>3. Stage(AfterPrepare(fine, f.then, f.by).frame) \in 0..5
    BY <1>3, <2>2, AfterPrepareStage, Zenon
  <2>. QED  BY <2>1, <2>3 DEF Nearer
<1>6. Nearer(o.frame, f)
  BY <1>4, <1>5, Zenon
<1>. HIDE DEF o
<1>. QED  BY <1>1, <1>6, ApplyFrame, Zenon DEF f

LEMMA CommitAnswerNearer ==
  ASSUME TInv, NEW c \in Callers, NEW ok \in BOOLEAN, CommitAnswer(c, ok)
  PROVE  Nearer(pc'[c], pc[c]) /\ \A d \in Callers \ {c} : pc'[d] = pc[d]
<1>. DEFINE f == pc[c]
            o == CASE ~ok \/ Resized(f) -> CommitFailed(f.by)
                   [] ok /\ ~Resized(f) /\ Len(f.todo) > 1 -> Continue(f)
                   [] OTHER -> Return("committed", "true")
<1>1. f.op = "commit" /\ Apply(c, o, f.by)
  BY Zenon DEF CommitAnswer
<1>2. Typed(f)
  BY Zenon DEF TInv
<1>3. f \in Frame /\ f.todo # <<>>
  BY <1>1, <1>2 DEF Typed
<1>. HIDE DEF f
<1>4. Nearer(Continue(f).frame, f)
  BY <1>3, ContinueNearer, Zenon
<1>5. Nearer(CommitFailed(f.by).frame, f) /\ Nearer(Return("committed", "true").frame, f)
  <2>1. Stage(f) = 5 /\ Stage(Return("committed", "true").frame) = 0
    BY <1>1, StageValues, ReturnStage, Zenon
  <2>2. Stage(CommitFailed(f.by).frame) \in {2, 3, 4}
    BY CommitFailedStage, Zenon
  <2>. QED  BY <2>1, <2>2 DEF Nearer
<1>6. o = CommitFailed(f.by) \/ o = Return("committed", "true") \/ o = Continue(f)
  BY Zenon
<1>. HIDE DEF o
<1>7. Nearer(o.frame, f)
  BY <1>4, <1>5, <1>6, Zenon
<1>. QED  BY <1>1, <1>7, ApplyFrame, Zenon DEF f

LEMMA RollbackAnswerNearer ==
  ASSUME TInv, NEW c \in Callers, RollbackAnswer(c)
  PROVE  Nearer(pc'[c], pc[c]) /\ \A d \in Callers \ {c} : pc'[d] = pc[d]
<1>. DEFINE f == pc[c]
            o == CASE Resized(f) -> AfterRollback(FALSE, f.then, f.by)
                   [] ~Resized(f) /\ Len(f.todo) > 1 -> Continue(f)
                   [] OTHER -> EnterCompensation(life, f.then, f.by)
<1>1. f.op = "rollback" /\ Apply(c, o, f.by)
  BY Zenon DEF RollbackAnswer
<1>2. Typed(f)
  BY Zenon DEF TInv
<1>3. f \in Frame /\ f.todo # <<>> /\ f.then \in {"return", "inner", "outer"}
  BY <1>1, <1>2 DEF Typed
<1>. HIDE DEF f
<1>4. Nearer(Continue(f).frame, f)
  BY <1>3, ContinueNearer, Zenon
<1>5. /\ Nearer(AfterRollback(FALSE, f.then, f.by).frame, f)
      /\ Nearer(EnterCompensation(life, f.then, f.by).frame, f)
  <2>1. Stage(f) = IF f.then = "inner" THEN 4 ELSE 2
    BY <1>1, StageValues, Zenon
  <2>2. Stage(AfterRollback(FALSE, f.then, f.by).frame) = IF f.then = "inner" THEN 2 ELSE 0
    BY <1>3, AfterRollbackStage, Zenon
  <2>3. Stage(EnterCompensation(life, f.then, f.by).frame) \in IF f.then = "inner" THEN {2, 3} ELSE {0, 1}
    BY <1>3, EnterCompensationStage, Zenon
  <2>. DEFINE s == Stage(f)
              a == Stage(AfterRollback(FALSE, f.then, f.by).frame)
              e == Stage(EnterCompensation(life, f.then, f.by).frame)
  <2>4. \/ s = 4 /\ a = 2 /\ e \in {2, 3}
        \/ s = 2 /\ a = 0 /\ e \in {0, 1}
    BY <2>1, <2>2, <2>3, Zenon
  <2>. HIDE DEF s, a, e
  <2>5. a < s /\ e < s
    BY <2>4
  <2>. QED  BY <2>5, Zenon DEF Nearer, s, a, e
<1>6. \/ o = AfterRollback(FALSE, f.then, f.by) \/ o = EnterCompensation(life, f.then, f.by)
      \/ o = Continue(f)
  BY Zenon
<1>. HIDE DEF o
<1>7. Nearer(o.frame, f)
  BY <1>4, <1>5, <1>6, Zenon
<1>. QED  BY <1>1, <1>7, ApplyFrame, Zenon DEF f

LEMMA CompensationAnswerNearer ==
  ASSUME TInv, NEW c \in Callers, NEW ok \in BOOLEAN, CompensationAnswer(c, ok)
  PROVE  Nearer(pc'[c], pc[c]) /\ \A d \in Callers \ {c} : pc'[d] = pc[d]
<1>. DEFINE f == pc[c]
            rest == Skip(Tail(f.todo), executed')
            g == [f EXCEPT !.todo = rest]
            o == IF rest = <<>> THEN AfterRollback(TRUE, f.then, f.by) ELSE Suspend(life, g)
<1>1. f.op = "compensate" /\ Apply(c, o, f.by)
  BY Zenon DEF CompensationAnswer
<1>2. Typed(f)
  BY Zenon DEF TInv
<1>3. /\ f \in Frame /\ f.then \in {"return", "inner", "outer"}
      /\ f.todo \in Seq(Compensations) /\ f.todo # <<>>
  BY <1>1, <1>2 DEF Typed
<1>. HIDE DEF f
<1>4. Len(rest) < Len(f.todo)
  <2>. DEFINE t == Tail(f.todo)
  <2>1. t \in Seq(Compensations) /\ Len(t) = Len(f.todo) - 1 /\ Len(f.todo) \in Nat
    BY <1>3, HeadTailProperties, LenProperties
  <2>. HIDE DEF t
  <2>2. Len(Skip(t, executed')) \in Nat /\ Len(Skip(t, executed')) <= Len(t)
    BY <2>1, SkipShortens, Zenon
  <2>3. Len(Skip(t, executed')) < Len(f.todo)
    BY <2>1, <2>2
  <2>. QED  BY <2>3, Zenon DEF t
<1>. HIDE DEF rest
<1>5. Nearer(Suspend(life, g).frame, f)
  <2>1. Nearer(g, f)
    BY <1>3, <1>4, ShorterNearer, Zenon
  <2>. HIDE DEF g
  <2>2. Suspend(life, g).frame = g
    BY DEF Suspend
  <2>. QED  BY <2>1, <2>2, Zenon
<1>6. Nearer(AfterRollback(TRUE, f.then, f.by).frame, f)
  <2>1. Stage(f) = IF f.then = "inner" THEN 3 ELSE 1
    BY <1>1, StageValues, Zenon
  <2>2. Stage(AfterRollback(TRUE, f.then, f.by).frame) = IF f.then = "inner" THEN 2 ELSE 0
    BY <1>3, AfterRollbackStage, Zenon
  <2>. DEFINE s == Stage(f)
              a == Stage(AfterRollback(TRUE, f.then, f.by).frame)
  <2>3. (s = 3 /\ a = 2) \/ (s = 1 /\ a = 0)
    BY <2>1, <2>2, Zenon
  <2>. HIDE DEF s, a
  <2>4. a < s
    BY <2>3
  <2>. QED  BY <2>4, Zenon DEF Nearer, s, a
<1>. HIDE DEF g
<1>7. Nearer(o.frame, f)
  BY <1>5, <1>6, Zenon
<1>. HIDE DEF o
<1>. QED  BY <1>1, <1>7, ApplyFrame, Zenon DEF f

LEMMA AnswerNearer ==
  ASSUME TInv, NEW c \in Callers, HandlerAnswers(c)
  PROVE  Nearer(pc'[c], pc[c]) /\ \A d \in Callers \ {c} : pc'[d] = pc[d]
BY PrepareAnswerNearer, CommitAnswerNearer, CompensationAnswerNearer, RollbackAnswerNearer,
   Zenon DEF HandlerAnswers

(* A new call starts where none is suspended and leaves the others alone. *)
LEMMA CallKeeps ==
  ASSUME TInv, NEW c \in Callers,
         Prepare(c) \/ CommitTransaction(c) \/ RollbackTransaction(c) \/ ScopeExit(c)
  PROVE  pc[c].op = "idle" /\ \A d \in Callers \ {c} : pc'[d] = pc[d]
<1>1. pc[c] = Idle
  BY Zenon DEF Prepare, CommitTransaction, RollbackTransaction, ScopeExit
<1>2. \E o, by : Apply(c, o, by)
  BY Zenon DEF Prepare, CommitTransaction, RollbackTransaction, ScopeExit
<1>3. pc[c].op = "idle"
  BY <1>1 DEF Idle
<1>. QED  BY <1>2, <1>3, ApplyFrame, Zenon

(* Every answer of a handler brings its call nearer to its return, and nothing
   else moves a suspended call, for any number of callers at the same time:
   no call goes over its handlers forever, although a failed commit rolls back
   twice (transaction.py:218, transaction_states.py:81) and participants and
   compensations may be added while it does. *)
THEOREM CallsComeToAnEnd == Spec => CallsAdvance
<1>. DEFINE Adv == \A c \in Callers :
                     /\ HandlerAnswers(c) => Nearer(pc'[c], pc[c])
                     /\ CallCancelled(c) => pc'[c] = Idle
                     /\ pc[c].op # "idle" =>
                          HandlerAnswers(c) \/ CallCancelled(c) \/ pc'[c] = pc[c]
<1>1. ASSUME TInv, [Next]_vars
      PROVE  Adv \/ UNCHANGED vars
  <2>1. \A c \in Callers : HandlerAnswers(c) => Nearer(pc'[c], pc[c])
    BY <1>1, AnswerNearer, Zenon
  <2>2. ASSUME NEW c \in Callers, HandlerAnswers(c)
        PROVE  \A d \in Callers : HandlerAnswers(d) \/ pc'[d] = pc[d]
    BY <1>1, <2>2, AnswerNearer, Zenon
  <2>3. ASSUME NEW c \in Callers,
               Prepare(c) \/ CommitTransaction(c) \/ RollbackTransaction(c) \/ ScopeExit(c)
        PROVE  \A d \in Callers : pc[d].op # "idle" => pc'[d] = pc[d]
    BY <1>1, <2>3, CallKeeps, Zenon
  <2>4. ASSUME \/ \E p \in Participants : AddParticipant(p)
               \/ \E k \in Compensations : AddCompensation(k)
               \/ Cleanup
        PROVE  \A d \in Callers : pc'[d] = pc[d]
    BY <2>4, Zenon DEF AddParticipant, AddCompensation, Cleanup
  <2>5. ASSUME NEW c \in Callers, CallCancelled(c)
        PROVE  pc'[c] = Idle /\ \A d \in Callers \ {c} : pc'[d] = pc[d]
    <3>1. Apply(c, Return(life, "cancelled"), pc[c].by)
      BY <2>5, Zenon DEF CallCancelled
    <3>2. Return(life, "cancelled").frame = Idle
      BY DEF Return
    <3>. QED  BY <1>1, <3>1, <3>2, ApplyFrame, Zenon
  <2>6. \A c \in Callers : CallCancelled(c) => pc'[c] = Idle
    BY <2>5, Zenon
  <2>. QED  BY <1>1, <2>1, <2>2, <2>3, <2>4, <2>5, <2>6, Zenon DEF Next
<1>2. Spec => []TInv
  BY WellTyped
<1>3. Spec => [][Adv]_vars
  <2>. HIDE DEF Adv
  <2>. QED  BY <1>1, <1>2, PTL DEF Spec
<1>. QED  BY <1>3 DEF CallsAdvance
=============================================================================
