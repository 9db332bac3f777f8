---------------------------- MODULE EngineProofs ----------------------------
(***************************************************************************)
(* Proofs about Engine and the token loop of ProcessExecutor, for any      *)
(* process models, step limit and numbers of calls, restarts and crashes:  *)
(* the safety properties, and that every step of an execution brings it    *)
(* closer to its end.                                                      *)
(***************************************************************************)
EXTENDS Engine, FiniteSetTheorems, SequenceTheorems, TLAPS

USE ExecutorAssumption, EngineAssumption

-----------------------------------------------------------------------------
(* Sequences whose elements are of no particular set. *)

Elems(s) == {s[i] : i \in DOMAIN s}
IsSeq(s) == s \in Seq(Elems(s))

LEMMA IsSeqDomain ==
  ASSUME NEW s, IsSeq(s)
  PROVE  Len(s) \in Nat /\ DOMAIN s = 1..Len(s)
BY LenProperties DEF IsSeq

LEMMA MakesSeq ==
  ASSUME NEW n \in Nat, NEW s, s \in [1..n -> Elems(s)]
  PROVE  IsSeq(s) /\ Len(s) = n /\ DOMAIN s = 1..n
<1>1. s \in Seq(Elems(s))
  BY SeqDef, Zenon
<1>2. DOMAIN s = 1..n /\ DOMAIN s = 1..Len(s) /\ Len(s) \in Nat
  BY <1>1, LenProperties
<1>. QED  BY <1>1, <1>2 DEF IsSeq

LEMMA EmptyIsSeq == IsSeq(<<>>) /\ DOMAIN <<>> = {} /\ Len(<<>>) = 0
BY DEF IsSeq, Elems

LEMMA AppendIsSeq ==
  ASSUME NEW s, IsSeq(s), NEW e
  PROVE  /\ IsSeq(Append(s, e)) /\ DOMAIN Append(s, e) = 1..(Len(s) + 1)
         /\ \A i \in DOMAIN s : Append(s, e)[i] = s[i]
         /\ Append(s, e)[Len(s) + 1] = e
<1>1. DEFINE S == Elems(s) \cup {e}
<1>2. s \in Seq(S) /\ e \in S
  BY SeqMonotonic DEF IsSeq
<1>3. /\ Len(s) \in Nat /\ DOMAIN s = 1..Len(s)
      /\ Append(s, e) \in Seq(S) /\ Len(Append(s, e)) = Len(s) + 1
      /\ \A i \in 1..Len(s) : Append(s, e)[i] = s[i]
      /\ Append(s, e)[Len(s) + 1] = e
  BY <1>2, AppendProperties, IsSeqDomain
<1>4. Append(s, e) \in [1..(Len(s) + 1) -> S]
  BY <1>3, LenProperties, Zenon
<1>5. Append(s, e) \in [1..(Len(s) + 1) -> Elems(Append(s, e))]
  BY <1>4, Zenon DEF Elems
<1>6. Len(s) + 1 \in Nat
  BY <1>3
<1>7. IsSeq(Append(s, e)) /\ DOMAIN Append(s, e) = 1..(Len(s) + 1)
  BY <1>5, <1>6, MakesSeq, Zenon
<1>. QED  BY <1>3, <1>7

LEMMA ConcatIsSeq ==
  ASSUME NEW s, IsSeq(s), NEW t, IsSeq(t)
  PROVE  /\ IsSeq(s \o t) /\ DOMAIN (s \o t) = 1..(Len(s) + Len(t))
         /\ \A i \in DOMAIN (s \o t) :
              \/ i \in DOMAIN s /\ (s \o t)[i] = s[i]
              \/ i - Len(s) \in DOMAIN t /\ (s \o t)[i] = t[i - Len(s)]
<1>1. DEFINE S == Elems(s) \cup Elems(t)
<1>2. s \in Seq(S) /\ t \in Seq(S)
  BY SeqMonotonic DEF IsSeq
<1>3. /\ Len(s) \in Nat /\ DOMAIN s = 1..Len(s) /\ Len(t) \in Nat /\ DOMAIN t = 1..Len(t)
  BY IsSeqDomain
<1>4. /\ s \o t \in Seq(S) /\ Len(s \o t) = Len(s) + Len(t)
      /\ \A i \in 1 .. Len(s) + Len(t) : (s \o t)[i] =
           IF i <= Len(s) THEN s[i] ELSE t[i - Len(s)]
  BY <1>2, ConcatProperties
<1>5. s \o t \in [1..(Len(s) + Len(t)) -> S]
  BY <1>4, LenProperties, Zenon
<1>6. s \o t \in [1..(Len(s) + Len(t)) -> Elems(s \o t)]
  BY <1>5, Zenon DEF Elems
<1>7. Len(s) + Len(t) \in Nat
  BY <1>3
<1>8. IsSeq(s \o t) /\ DOMAIN (s \o t) = 1..(Len(s) + Len(t))
  BY <1>6, <1>7, MakesSeq, Zenon
<1>. QED  BY <1>3, <1>4, <1>8

-----------------------------------------------------------------------------
(* The inductive invariant. *)

(* The state of the engine, and what its administrator waits for. *)
Services ==
  /\ (admin = "recovering") <=> (life = "starting")
  /\ (admin = "stopping") <=> (life = "stopping")
  /\ life = "stopping" => ~sched
  /\ ServicesFollow

(* The instance and its row. *)
Rows ==
  /\ inst # "none" => row # "none"
  /\ inst # "none" /\ ~detached => row = inst
  /\ inst = "none" => updating = {}
  /\ pc = "idle" => inst = "none" /\ row = "none"
  /\ pc \notin {"idle", "dead"} => inst # "none"

(* As long as the instance is active or suspended, at most the operator's update
   to that state is under way. *)
Sets ==
  inst \in {"active", "suspended"} =>
    /\ updating \subseteq {<<"operator", inst>>}
    /\ updating = {} => listed = {inst}

(* The execution makes one update, as its last step. *)
Finishing ==
  /\ \A u \in updating : u[1] = "executor" => finishing /\ pc = "end" /\ saving = 0
  /\ \A u, v \in updating : u[1] = "executor" /\ v[1] = "executor" => u = v

(* Some token waits whose state has been saved or will be. *)
WaitSaved ==
  \E i \in DOMAIN tokens :
    /\ tokens[i].state = "waiting"
    /\ \/ saving # 0 /\ saving <= i
       \/ i <= Len(trow) /\ (~detached => trow[i] = tokens[i])

(* The tokens and their rows. *)
Stored ==
  /\ IsSeq(tokens) /\ IsSeq(trow)
  /\ saving # 0 => pc \in {"visit", "perform", "register", "end"} /\ saving <= Len(trow) + 1
  /\ saving = 0 /\ pc \in {"perform", "register"} => Len(trow) = Len(tokens)
  /\ ~detached => tokensOld = {}
  /\ pc = "register" => WaitSaved
  /\ registered => pc \in {"end", "done", "dead"} /\ saving = 0
  /\ SubscriptionHasToken

(* The loop. *)
Loop ==
  /\ model \in Models
  /\ pc = "perform" => current \in Nodes
  /\ pc \in {"idle", "start"} => tokens = <<>>
  /\ pc \in {"visit", "perform"} => \A i \in DOMAIN tokens : tokens[i].state \in {"active", "completed"}
  /\ pc = "perform" => At(tokens, current) # {} /\ current \in visited
  /\ ran \subseteq visited
  /\ pc \notin {"end", "done"} => outcome = "none"
  /\ CompletedIsQuiet
  /\ RunsOnce

IInv == TypeOK /\ Services /\ Rows /\ Sets /\ Finishing /\ Stored /\ Loop

-----------------------------------------------------------------------------
(* The engine's side. *)

LEMMA InitIInv == Init => IInv
<1>. SUFFICES ASSUME Init PROVE IInv
  OBVIOUS
<1>1. tokens = <<>> /\ trow = <<>> /\ saving = 0 /\ IsSeq(tokens) /\ IsSeq(trow)
      /\ DOMAIN tokens = {} /\ DOMAIN trow = {} /\ Len(tokens) = 0 /\ Len(trow) = 0
  BY EmptyIsSeq DEF Init, ExecInit
<1>2. TypeOK
  <2>1. bus \in BOOLEAN /\ sched \in BOOLEAN /\ hold \in BOOLEAN /\ finishing \in BOOLEAN
        /\ detached \in BOOLEAN
    BY Zenon DEF Init
  <2>. QED  BY <1>1, <2>1 DEF Init, ExecInit, TypeOK, States
<1>3. Services /\ Rows /\ Sets /\ Finishing
  BY DEF Init, ExecInit, Services, ServicesFollow, Rows, Sets, Finishing
<1>4. Stored
  BY <1>1 DEF Init, ExecInit, Stored, SubscriptionHasToken
<1>5. Loop
  BY <1>1 DEF Init, ExecInit, Loop, CompletedIsQuiet, RunsOnce
<1>. QED  BY <1>2, <1>3, <1>4, <1>5 DEF IInv

(* An execution is under way before and after each of its steps. *)
LEMMA ExecuteRuns ==
  ASSUME IInv, Execute
  PROVE  /\ pc \notin {"idle", "dead", "done"} /\ pc' \notin {"idle", "start", "dead", "done"}
         /\ inst # "none"
<1>1. Stored /\ Rows
  BY DEF IInv
<1>2. pc \notin {"idle", "dead", "done"} /\ pc' \notin {"idle", "start", "dead", "done"}
  BY <1>1 DEF Stored, Execute, Begin, SaveToken, Visit, Break, Perform, Fails, Waits, Succeeds,
              Ends, Register
<1>. QED  BY <1>1, <1>2 DEF Rows

LEMMA ServicesStep ==
  ASSUME IInv, [Next]_vars
  PROVE  Services'
<1>1. Services /\ bus \in BOOLEAN /\ sched \in BOOLEAN /\ hold \in BOOLEAN
  BY DEF IInv, TypeOK
<1>2. CASE UNCHANGED <<life, bus, sched, hold, admin>>
  BY <1>1, <1>2 DEF Services, ServicesFollow
<1>3. CASE Start
  BY <1>1, <1>3 DEF Services, ServicesFollow, Start, AdminCall
<1>4. CASE Recovered
  BY <1>1, <1>4, Zenon DEF Services, ServicesFollow, Recovered
<1>5. CASE Stop
  BY <1>1, <1>5 DEF Services, ServicesFollow, Stop, AdminCall
<1>6. CASE Stopped
  BY <1>1, <1>6 DEF Services, ServicesFollow, Stopped
<1>7. CASE Pause
  BY <1>1, <1>7 DEF Services, ServicesFollow, Pause, AdminCall
<1>8. CASE Resume
  BY <1>1, <1>8 DEF Services, ServicesFollow, Resume, AdminCall
<1>9. CASE Crash
  BY <1>9 DEF Services, ServicesFollow, Crash
<1>10. CASE StartInstance \/ Execute \/ Finish \/ Delete
            \/ (\E to \in {"suspended", "active", "terminated"} : Update(to))
            \/ (\E u \in Updates : Updated(u))
  <2>1. UNCHANGED <<life, bus, sched, hold, admin>>
    BY <1>10 DEF StartInstance, Execute, Finish, Delete, Update, Updated
  <2>. QED  BY <1>2, <2>1
<1>. QED  BY <1>2, <1>3, <1>4, <1>5, <1>6, <1>7, <1>8, <1>9, <1>10 DEF Next, vars, engVars

(* The instance, its row, the sets and the updates under way: one lemma for all
   that is said of them. *)
InstanceStep ==
  /\ Rows' /\ Sets'
  /\ row \in Final => row' = row
  /\ inst \in Final => inst' \in {inst, "none"}

LEMMA InstanceUnchanged ==
  ASSUME IInv, UNCHANGED <<inst, row, listed, updating, pc>>,
         inst # "none" => (~detached' => ~detached)
  PROVE  InstanceStep
BY Zenon DEF IInv, InstanceStep, Rows, Sets, Final

LEMMA InstanceFinish ==
  ASSUME IInv, Finish
  PROVE  InstanceStep
<1>1. Rows /\ Sets /\ pc = "end" /\ UNCHANGED <<detached, listed>>
  BY DEF IInv, Finish
<1>2. CASE UNCHANGED <<inst, row, updating>> /\ pc' = "done"
  BY <1>1, <1>2 DEF InstanceStep, Rows, Sets, Final
<1>3. ASSUME NEW to \in {"completed", "failed"}, Allowed(inst, to),
             inst' = to, row' = Saved(to), pc' = pc
      PROVE  InstanceStep
  <2>1. inst \in {"active", "suspended"}
    BY <1>3, Zenon DEF Allowed
  <2>. QED  BY <1>1, <1>3, <2>1 DEF InstanceStep, Rows, Sets, Saved, Final
<1>. QED  BY <1>2, <1>3, Zenon DEF Finish

LEMMA InstanceUpdate ==
  ASSUME IInv, NEW to \in {"suspended", "active", "terminated"}, Update(to)
  PROVE  InstanceStep
<1>1. Rows /\ Sets /\ inst # "none" /\ UNCHANGED <<pc, detached, listed>>
      /\ updating' = updating \cup {<<"operator", to>>}
      /\ row' = Saved(inst')
  BY DEF IInv, Update, execVars
<1>2. \/ inst' = inst /\ to = "active"
      \/ inst' = to /\ Allowed(inst, to)
  BY DEF Update
<1>3. inst \in {"active", "suspended"} => updating = {}
  <2>1. \A u \in updating : u[1] # "operator"
    BY DEF Update
  <2>2. <<"operator", inst>>[1] = "operator"
    OBVIOUS
  <2>. QED  BY <1>1, <2>1, <2>2 DEF Sets
<1>4. inst' \in {"active", "suspended"} => inst \in {"active", "suspended"} /\ inst' = to
  BY <1>2, Zenon DEF Allowed, Update
<1>5. Sets'
  BY <1>1, <1>3, <1>4, Zenon DEF Sets
<1>6. inst \in Final => inst' = inst
  BY <1>2, Zenon DEF Allowed, Final
<1>7. inst' # "none"
  BY <1>1, <1>2
<1>. QED  BY <1>1, <1>5, <1>6, <1>7 DEF InstanceStep, Rows, Saved

LEMMA InstanceUpdated ==
  ASSUME IInv, NEW u \in Updates, Updated(u)
  PROVE  InstanceStep
<1>1. Rows /\ Sets /\ UNCHANGED <<inst, row, detached>> /\ u \in updating
      /\ updating' = updating \ {u} /\ listed' = Relist(u[2])
      /\ pc' \in {"done", pc}
  BY DEF IInv, Updated
<1>2. inst # "none"
  BY <1>1 DEF Rows
<1>3. Rows'
  BY <1>1, <1>2 DEF Rows
<1>4. inst \in {"active", "suspended"} => u = <<"operator", inst>> /\ listed' = {inst}
  <2>1. inst \in {"active", "suspended"} => u = <<"operator", inst>>
    BY <1>1 DEF Sets
  <2>2. inst \in {"active", "suspended"} => u[2] = inst
    BY <2>1
  <2>. QED  BY <1>1, <2>1, <2>2 DEF Relist
<1>5. Sets'
  BY <1>1, <1>4 DEF Sets
<1>. QED  BY <1>1, <1>3, <1>5 DEF InstanceStep

LEMMA InstanceOk ==
  ASSUME IInv, [Next]_vars
  PROVE  InstanceStep
<1>1. CASE StartInstance
  BY <1>1 DEF IInv, StartInstance, InstanceStep, Rows, Sets, Final
<1>2. CASE Execute
  <2>1. /\ pc \notin {"idle", "dead", "done"} /\ pc' \notin {"idle", "start", "dead", "done"}
        /\ inst # "none"
    BY <1>2, ExecuteRuns
  <2>2. row' = Saved(inst) /\ UNCHANGED <<inst, listed, updating, detached>>
    BY <1>2 DEF Execute
  <2>. QED  BY <2>1, <2>2 DEF IInv, InstanceStep, Rows, Sets, Saved, Final
<1>3. CASE Delete
  <2>1. /\ UNCHANGED <<inst, listed, updating, detached, pc>>
        /\ row' = Saved(IF inst = "none" THEN row ELSE inst)
    BY <1>3 DEF Delete
  <2>2. row' = row
    BY <2>1 DEF IInv, Rows, Saved
  <2>. QED  BY <2>1, <2>2, InstanceUnchanged
<1>4. CASE Start \/ Recovered \/ Stop \/ Stopped \/ Pause \/ Resume
  <2>1. UNCHANGED <<inst, row, listed, updating, pc>>
    BY <1>4, Zenon DEF Start, Recovered, Stop, Stopped, Pause, Resume, untouched, execVars
  <2>2. ~detached' => ~detached
    BY <1>4, Zenon DEF Start, Recovered, Stop, Stopped, Pause, Resume
  <2>. QED  BY <2>1, <2>2, InstanceUnchanged, Zenon
<1>5. CASE Crash
  BY <1>5, Zenon DEF IInv, Crash, InstanceStep, Rows, Sets, Final
<1>6. CASE UNCHANGED vars
  BY <1>6, InstanceUnchanged, Zenon DEF vars, engVars, execVars
<1>. QED
  BY <1>1, <1>2, <1>3, <1>4, <1>5, <1>6, InstanceFinish, InstanceUpdate, InstanceUpdated, Zenon
     DEF Next

LEMMA FinishingStep ==
  ASSUME IInv, [Next]_vars
  PROVE  Finishing'
<1>1. Finishing
  BY Zenon DEF IInv
<1>2. CASE Finish
  <2>1. \A u \in updating : u[1] # "executor"
    BY <1>1, <1>2, Zenon DEF Finishing, Finish
  <2>2. CASE updating' = updating
    BY <2>1, <2>2 DEF Finishing
  <2>3. ASSUME NEW to, updating' = updating \cup {<<"executor", to>>},
               finishing' = TRUE, pc' = pc, saving' = saving
        PROVE  Finishing'
    <3>1. \A u \in updating' : u[1] = "executor" => u = <<"executor", to>>
      BY <2>1, <2>3
    <3>. QED  BY <1>2, <2>3, <3>1 DEF Finishing, Finish
  <2>. QED  BY <1>2, <2>2, <2>3, Zenon DEF Finish
<1>3. ASSUME NEW to \in {"suspended", "active", "terminated"}, Update(to)
      PROVE  Finishing'
  <2>1. updating' = updating \cup {<<"operator", to>>} /\ UNCHANGED <<finishing, pc, saving>>
    BY <1>3 DEF Update, execVars
  <2>2. <<"operator", to>>[1] # "executor"
    OBVIOUS
  <2>. QED  BY <1>1, <2>1, <2>2 DEF Finishing
<1>4. ASSUME NEW u \in Updates, Updated(u)
      PROVE  Finishing'
  <2>1. /\ u \in updating /\ updating' = updating \ {u} /\ UNCHANGED <<finishing, saving>>
        /\ pc' = IF u[1] = "executor" THEN "done" ELSE pc
    BY <1>4 DEF Updated
  <2>. QED  BY <1>1, <2>1 DEF Finishing
<1>5. CASE Execute
  <2>1. saving # 0 \/ pc # "end"
    BY <1>5 DEF Execute, Begin, SaveToken, Visit, Perform, Register
  <2>2. UNCHANGED <<updating, finishing>>
    BY <1>5 DEF Execute
  <2>. QED  BY <1>1, <2>1, <2>2 DEF Finishing
<1>6. CASE StartInstance
  <2>1. updating = {} /\ updating' = {}
    BY <1>6 DEF IInv, Rows, StartInstance
  <2>. QED  BY <2>1 DEF Finishing
<1>7. CASE Crash
  BY <1>7 DEF Crash, Finishing
<1>8. CASE Delete \/ Start \/ Recovered \/ Stop \/ Stopped \/ Pause \/ Resume \/ UNCHANGED vars
  <2>1. UNCHANGED <<updating, finishing, pc, saving>>
    BY <1>8, Zenon DEF Delete, Start, Recovered, Stop, Stopped, Pause, Resume, untouched, execVars, vars,
                engVars
  <2>. QED  BY <1>1, <2>1, Zenon DEF Finishing
<1>. QED  BY <1>2, <1>3, <1>4, <1>5, <1>6, <1>7, <1>8 DEF Next

-----------------------------------------------------------------------------
(* The loop's side. *)

(* The part of TypeOK that an execution changes. *)
TypeExec ==
  /\ pc \in {"idle", "start", "visit", "perform", "register", "end", "done", "dead"}
  /\ outcome \in {"none", "completed", "waiting", "stalled", "raised"}
  /\ steps \in 0..Limit
  /\ saving \in 0..Len(tokens) /\ tokensOld \subseteq DOMAIN trow
  /\ Len(trow) <= Len(tokens)

ExecStep == TypeExec' /\ Stored' /\ Loop'

LEMMA Facts ==
  ASSUME IInv
  PROVE  /\ TypeExec /\ Stored /\ Loop
         /\ Len(tokens) \in Nat /\ DOMAIN tokens = 1..Len(tokens)
         /\ Len(trow) \in Nat /\ DOMAIN trow = 1..Len(trow)
<1>1. TypeExec /\ Stored /\ Loop
  BY DEF IInv, TypeOK, TypeExec
<1>. QED  BY <1>1, IsSeqDomain DEF Stored

LEMMA MoveToSeq ==
  ASSUME IsSeq(tokens), NEW S, NEW n
  PROVE  /\ IsSeq(MoveTo(S, n)) /\ DOMAIN MoveTo(S, n) = DOMAIN tokens
         /\ Len(MoveTo(S, n)) = Len(tokens)
         /\ \A i \in DOMAIN tokens : MoveTo(S, n)[i].state = tokens[i].state
<1>1. Len(tokens) \in Nat /\ DOMAIN tokens = 1..Len(tokens)
  BY IsSeqDomain
<1>2. \A i \in DOMAIN tokens : MoveTo(S, n)[i].state = tokens[i].state
  BY DEF MoveTo
<1>3. MoveTo(S, n) \in [1..Len(tokens) -> Elems(MoveTo(S, n))]
  BY <1>1 DEF MoveTo, Elems
<1>. QED  BY <1>1, <1>2, <1>3, MakesSeq

LEMMA SetStateSeq ==
  ASSUME IsSeq(tokens), NEW S, NEW v
  PROVE  /\ IsSeq(SetState(S, v)) /\ DOMAIN SetState(S, v) = DOMAIN tokens
         /\ Len(SetState(S, v)) = Len(tokens)
         /\ \A i \in DOMAIN tokens : SetState(S, v)[i].state = IF i \in S THEN v ELSE tokens[i].state
<1>1. Len(tokens) \in Nat /\ DOMAIN tokens = 1..Len(tokens)
  BY IsSeqDomain
<1>2. \A i \in DOMAIN tokens : SetState(S, v)[i].state = IF i \in S THEN v ELSE tokens[i].state
  BY DEF SetState
<1>3. SetState(S, v) \in [1..Len(tokens) -> Elems(SetState(S, v))]
  BY <1>1 DEF SetState, Elems
<1>. QED  BY <1>1, <1>2, <1>3, MakesSeq

LEMMA LoopBegin ==
  ASSUME IInv, Begin, UNCHANGED <<tokensOld, detached>>
  PROVE  ExecStep
<1>1. /\ TypeExec /\ Stored /\ Loop
      /\ Len(trow) \in Nat /\ DOMAIN trow = 1..Len(trow)
  BY Facts
<1>2. pc = "start" /\ saving = 0 /\ tokens = <<>> /\ Len(trow) = 0 /\ outcome = "none"
      /\ ~registered
      /\ UNCHANGED <<model, current, visited, steps, saving, trow, branches, registered, ran>>
  BY <1>1 DEF Begin, TypeExec, Stored, Loop
<1>3. CASE model.start = NoNode
  <2>1. pc' = "end" /\ outcome' = "completed" /\ tokens' = tokens
    BY <1>3 DEF Begin
  <2>2. DOMAIN tokens = {}
    BY <1>2, EmptyIsSeq, Zenon
  <2>. QED  BY <1>1, <1>2, <2>1, <2>2, Zenon DEF ExecStep, TypeExec, Stored, Loop, SubscriptionHasToken,
              CompletedIsQuiet, RunsOnce
<1>4. CASE model.start # NoNode
  <2>1. pc' = "visit" /\ outcome' = outcome
        /\ tokens' = <<[at |-> model.start, state |-> "active"]>>
    BY <1>4 DEF Begin
  <2>2. /\ IsSeq(tokens') /\ Len(tokens') = 1
        /\ \A i \in DOMAIN tokens' : tokens'[i].state = "active"
    BY <2>1 DEF IsSeq, Elems
  <2>. QED  BY <1>1, <1>2, <2>1, <2>2 DEF ExecStep, TypeExec, Stored, Loop, SubscriptionHasToken,
              CompletedIsQuiet, RunsOnce
<1>. QED  BY <1>3, <1>4

LEMMA LoopSave ==
  ASSUME IInv, SaveToken(tokensOld), UNCHANGED <<tokensOld, detached>>
  PROVE  ExecStep
<1>1. /\ TypeExec /\ Stored /\ Loop
      /\ Len(tokens) \in Nat /\ DOMAIN tokens = 1..Len(tokens)
      /\ Len(trow) \in Nat /\ DOMAIN trow = 1..Len(trow)
  BY Facts
<1>. DEFINE put == IF saving <= Len(trow) THEN [trow EXCEPT ![saving] = tokens[saving]]
                   ELSE Append(trow, tokens[saving])
<1>0. trow' = IF saving \in tokensOld THEN trow ELSE put
  BY Zenon DEF SaveToken
<1>n. Len(tokens) \in Nat /\ Len(trow) \in Nat
  BY <1>1, Zenon
<1>s. saving # 0 /\ saving' = IF saving = Len(tokens) THEN 0 ELSE saving + 1
  BY Zenon DEF SaveToken
<1>u. /\ model' = model /\ pc' = pc /\ outcome' = outcome /\ current' = current
      /\ visited' = visited /\ steps' = steps /\ tokens' = tokens
      /\ registered' = registered /\ ran' = ran /\ tokensOld' = tokensOld /\ detached' = detached
  BY Zenon DEF SaveToken
<1>2. /\ saving \in 1..Len(tokens) /\ saving <= Len(trow) + 1
      /\ pc \in {"visit", "perform", "register", "end"} /\ ~registered
      /\ tokensOld \subseteq DOMAIN trow /\ Len(trow) <= Len(tokens) /\ IsSeq(trow)
      /\ (~detached => tokensOld = {}) /\ (pc = "register" => WaitSaved)
  <2>1. saving \in 0..Len(tokens) /\ tokensOld \subseteq DOMAIN trow /\ Len(trow) <= Len(tokens)
    BY <1>1, Zenon DEF TypeExec
  <2>2. /\ saving <= Len(trow) + 1 /\ IsSeq(trow)
        /\ pc \in {"visit", "perform", "register", "end"} /\ ~registered
        /\ (~detached => tokensOld = {}) /\ (pc = "register" => WaitSaved)
    BY <1>s, <1>1, Zenon DEF Stored
  <2>3. saving \in 1..Len(tokens)
    BY <1>s, <1>n, <2>1, SMTT(30)
  <2>. QED  BY <2>1, <2>2, <2>3, Zenon
<1>3. /\ IsSeq(trow') /\ DOMAIN trow' = 1..Len(trow') /\ Len(trow') \in Nat
      /\ Len(trow') >= Len(trow) /\ Len(trow') >= saving /\ Len(trow') <= Len(tokens)
      /\ saving \notin tokensOld => trow'[saving] = tokens[saving]
      /\ \A i \in DOMAIN trow : i # saving => trow'[i] = trow[i]
  <2>1. CASE saving \in tokensOld
    <3>1. trow' = trow
      BY <1>0, <2>1, Zenon
    <3>. QED  BY <1>1, <1>2, <2>1, <3>1
  <2>2. CASE saving \notin tokensOld /\ saving <= Len(trow)
    <3>1. trow' = [trow EXCEPT ![saving] = tokens[saving]]
      BY <1>0, <2>2, Zenon
    <3>2. saving \in DOMAIN trow
      BY <1>1, <1>2, <2>2, SMTT(30)
    <3>3. trow \in [1..Len(trow) -> Elems(trow)]
      BY <1>1, LenProperties, Zenon DEF Stored, IsSeq
    <3>4. trow' \in [1..Len(trow) -> Elems(trow')]
      BY <3>1, <3>3, Zenon DEF Elems
    <3>5. IsSeq(trow') /\ Len(trow') = Len(trow) /\ DOMAIN trow' = 1..Len(trow)
      BY <1>1, <3>4, MakesSeq
    <3>6. trow'[saving] = tokens[saving] /\ \A i \in DOMAIN trow : i # saving => trow'[i] = trow[i]
      BY <3>1, <3>2, <3>3
    <3>. QED  BY <1>1, <1>2, <2>2, <3>5, <3>6 DEF TypeExec
  <2>3. CASE saving \notin tokensOld /\ ~(saving <= Len(trow))
    <3>1. trow' = Append(trow, tokens[saving])
      BY <1>0, <2>3, Zenon
    <3>2. saving = Len(trow) + 1
      BY <1>1, <1>2, <2>3
    <3>3. /\ IsSeq(trow') /\ DOMAIN trow' = 1..(Len(trow) + 1)
          /\ \A i \in DOMAIN trow : trow'[i] = trow[i]
          /\ trow'[Len(trow) + 1] = tokens[saving]
      <4>. DEFINE e == tokens[saving]
      <4>1. trow' = Append(trow, e)
        BY <3>1
      <4>. HIDE DEF e
      <4>2. /\ IsSeq(Append(trow, e)) /\ DOMAIN Append(trow, e) = 1..(Len(trow) + 1)
            /\ \A i \in DOMAIN trow : Append(trow, e)[i] = trow[i]
            /\ Append(trow, e)[Len(trow) + 1] = e
        BY <1>2, AppendIsSeq, Zenon
      <4>. QED  BY <4>1, <4>2, Zenon DEF e
    <3>4. DOMAIN trow' = 1..Len(trow') /\ Len(trow') \in Nat
      BY <3>3, IsSeqDomain
    <3>5. Len(trow') = Len(trow) + 1
      BY <1>1, <3>3, <3>4
    <3>. QED  BY <1>1, <1>2, <2>3, <3>2, <3>3, <3>4, <3>5
  <2>. QED  BY <2>1, <2>2, <2>3, Zenon
<1>4. TypeExec'
  <2>1. saving' \in 0..Len(tokens)
    BY <1>n, <1>s, <1>2
  <2>2. tokensOld \subseteq DOMAIN trow'
    <3>1. 1..Len(trow) \subseteq 1..Len(trow')
      BY <1>n, <1>3
    <3>. QED  BY <1>1, <1>2, <1>3, <3>1, Zenon
  <2>. QED  BY <1>u, <1>1, <1>3, <2>1, <2>2, Zenon DEF TypeExec
<1>5. WaitSaved => WaitSaved'
  <2>. SUFFICES ASSUME WaitSaved PROVE WaitSaved'
    OBVIOUS
  <2>1. PICK i \in DOMAIN tokens :
          /\ tokens[i].state = "waiting"
          /\ \/ saving # 0 /\ saving <= i
             \/ i <= Len(trow) /\ (~detached => trow[i] = tokens[i])
    BY DEF WaitSaved
  <2>2. ~detached => saving \notin tokensOld
    BY <1>2
  <2>3. i \in 1..Len(tokens)
    BY <1>1, <2>1, Zenon
  <2>4. \/ saving' # 0 /\ saving' <= i
        \/ i <= Len(trow') /\ (~detached => trow'[i] = tokens[i])
    <3>1. CASE i = saving
      BY <1>3, <2>2, <3>1
    <3>2. CASE i # saving /\ saving <= i
      BY <1>n, <1>s, <1>2, <2>3, <3>2
    <3>3. CASE i # saving /\ i <= Len(trow) /\ (~detached => trow[i] = tokens[i])
      <4>1. i \in DOMAIN trow /\ i <= Len(trow')
        BY <1>n, <1>1, <1>3, <2>3, <3>3
      <4>. QED  BY <1>3, <3>3, <4>1, Zenon
    <3>. QED  BY <2>1, <3>1, <3>2, <3>3, Zenon
  <2>. QED  BY <1>u, <2>1, <2>4 DEF WaitSaved
<1>6. Stored'
  <2>1. saving' # 0 => saving' <= Len(trow') + 1
    BY <1>n, <1>s, <1>2, <1>3, SMTT(30)
  <2>2. saving' = 0 => Len(trow') = Len(tokens')
    BY <1>n, <1>s, <1>u, <1>2, <1>3
  <2>3. IsSeq(tokens') /\ (pc' = "register" => WaitSaved')
    BY <1>u, <1>1, <1>2, <1>5, Zenon DEF Stored
  <2>4. ~registered' /\ (~detached' => tokensOld' = {})
    BY <1>u, <1>2
  <2>. QED  BY <1>u, <1>2, <1>3, <2>1, <2>2, <2>3, <2>4, Zenon DEF Stored, SubscriptionHasToken
<1>7. Loop'
  BY <1>u, <1>1, Zenon DEF Loop, CompletedIsQuiet, RunsOnce, At, Active, Class, Nodes
<1>. QED  BY <1>4, <1>6, <1>7 DEF ExecStep

LEMMA LoopVisit ==
  ASSUME IInv, Visit, UNCHANGED <<tokensOld, detached>>
  PROVE  ExecStep
<1>1. /\ TypeExec /\ Stored /\ Loop
      /\ Len(tokens) \in Nat /\ DOMAIN tokens = 1..Len(tokens)
      /\ Len(trow) \in Nat /\ DOMAIN trow = 1..Len(trow)
  BY Facts, Zenon
<1>2. /\ pc = "visit" /\ saving = 0 /\ outcome = "none" /\ ~registered
      /\ UNCHANGED <<model, current, tokens, trow, branches, registered, ran>>
  BY <1>1, Zenon DEF Visit, Loop, Stored
<1>3. CASE /\ pc' = "end" /\ outcome' \in {"raised", "stalled"} /\ saving' = saving
           /\ visited' \in {visited, visited \cup {current}} /\ steps' \in 0..Limit
  BY <1>1, <1>2, <1>3 DEF ExecStep, TypeExec, Stored, Loop, SubscriptionHasToken,
     CompletedIsQuiet, RunsOnce
<1>4. CASE /\ pc' = "perform" /\ outcome' = outcome /\ saving' = 1
           /\ visited' = visited \cup {current} /\ steps' \in 0..Limit
           /\ current \notin visited \/ Class(current) # "none"
           /\ At(tokens, current) # {} /\ current \in Nodes
  <2>1. DOMAIN tokens # {} /\ Len(tokens) >= 1
    BY <1>1, <1>4, SMTT(30) DEF At, Active
  <2>2. TypeExec'
    BY <1>1, <1>2, <1>4, <2>1, SMTT(30) DEF TypeExec
  <2>3. Stored'
    <3>1. saving' # 0 /\ saving' <= Len(trow') + 1
      BY <1>1, <1>2, <1>4
    <3>. QED  BY <1>1, <1>2, <1>4, <3>1, Zenon DEF Stored, SubscriptionHasToken
  <2>4. /\ Class(current)' = Class(current) /\ At(tokens, current)' = At(tokens, current)
        /\ Nodes' = Nodes
    BY <1>2 DEF Class, Nodes, At, Active
  <2>5. current \in ran => Class(current) # "none"
    BY <1>1, <1>4 DEF Loop
  <2>6. Loop'
    BY <1>1, <1>2, <1>4, <2>4, <2>5 DEF Loop, CompletedIsQuiet, RunsOnce
  <2>. QED  BY <2>2, <2>3, <2>6 DEF ExecStep
<1>. QED  BY <1>1, <1>2, <1>3, <1>4 DEF Visit, Break, Counted, Remembered, TypeExec

LEMMA LoopRegister ==
  ASSUME IInv, Register, UNCHANGED <<tokensOld, detached>>
  PROVE  ExecStep
<1>1. /\ TypeExec /\ Stored /\ Loop
      /\ Len(tokens) \in Nat /\ DOMAIN tokens = 1..Len(tokens)
      /\ Len(trow) \in Nat /\ DOMAIN trow = 1..Len(trow)
  BY Facts
<1>2. /\ pc = "register" /\ saving = 0 /\ registered' = TRUE /\ outcome' = "waiting" /\ pc' = "end"
      /\ UNCHANGED <<model, current, visited, steps, tokens, saving, trow, branches, ran>>
  BY DEF Register
<1>3. PICK i \in DOMAIN tokens : /\ tokens[i].state = "waiting" /\ i <= Len(trow)
                                 /\ ~detached => trow[i] = tokens[i]
  BY <1>1, <1>2 DEF Stored, WaitSaved
<1>4. i \in DOMAIN trow
  BY <1>1, <1>3
<1>5. ~detached => \E j \in DOMAIN trow : trow[j].state = "waiting"
  BY <1>3, <1>4
<1>6. TypeExec'
  BY <1>1, <1>2, Zenon DEF TypeExec
<1>7. Stored'
  BY <1>1, <1>2, <1>5, Zenon DEF Stored, SubscriptionHasToken
<1>8. Loop'
  BY <1>1, <1>2 DEF Loop, CompletedIsQuiet, RunsOnce
<1>. QED  BY <1>6, <1>7, <1>8 DEF ExecStep

(* What is known when an activity is performed. *)
PerformFacts ==
  /\ TypeExec /\ Stored /\ Loop
  /\ Len(tokens) \in Nat /\ DOMAIN tokens = 1..Len(tokens)
  /\ Len(trow) = Len(tokens)
  /\ pc = "perform" /\ saving = 0 /\ outcome = "none" /\ ~registered
  /\ \A i \in DOMAIN tokens : tokens[i].state \in {"active", "completed"}
  /\ At(tokens, current) # {} /\ current \in visited /\ ran \subseteq visited
  /\ model \in Models /\ current \in Nodes
  /\ UNCHANGED <<model, visited, steps, trow, registered, tokensOld, detached>>

LEMMA PerformKnows ==
  ASSUME IInv, Perform, UNCHANGED <<tokensOld, detached>>
  PROVE  PerformFacts /\ Len(tokens) >= 1
<1>1. /\ TypeExec /\ Stored /\ Loop
      /\ Len(tokens) \in Nat /\ DOMAIN tokens = 1..Len(tokens)
  BY Facts
<1>2. pc = "perform" /\ saving = 0 /\ UNCHANGED <<model, visited, steps, trow, registered>>
  BY Zenon DEF Perform
<1>3. PerformFacts
  BY <1>1, <1>2 DEF PerformFacts, Stored, Loop
<1>4. DOMAIN tokens # {}
  BY <1>3, Zenon DEF PerformFacts, At, Active
<1>. QED  BY <1>1, <1>3, <1>4

LEMMA LoopFails ==
  ASSUME PerformFacts, Fails
  PROVE  ExecStep
<1>1. outcome' = "raised" /\ pc' = "end" /\ UNCHANGED <<current, tokens, saving, branches, ran>>
  BY DEF Fails
<1>. QED  BY <1>1, Zenon DEF PerformFacts, ExecStep, TypeExec, Stored, Loop, SubscriptionHasToken,
           CompletedIsQuiet, RunsOnce

LEMMA LoopWaits ==
  ASSUME PerformFacts, Len(tokens) >= 1, Waits
  PROVE  ExecStep
<1>. DEFINE here == At(tokens, current)
<1>1. /\ tokens' = SetState(here, "waiting") /\ saving' = 1 /\ pc' = "register"
      /\ ran' = ran \cup {current} /\ UNCHANGED <<outcome, current, branches>>
  BY DEF Waits
<1>2. PICK i \in DOMAIN tokens : i \in here
  BY Zenon DEF PerformFacts, At, Active
<1>. HIDE DEF here
<1>3. /\ IsSeq(tokens') /\ DOMAIN tokens' = DOMAIN tokens /\ Len(tokens') = Len(tokens)
      /\ \A j \in DOMAIN tokens : tokens'[j].state = IF j \in here THEN "waiting" ELSE tokens[j].state
  <2>1. IsSeq(tokens)
    BY Zenon DEF PerformFacts, Stored
  <2>. QED  BY <1>1, <2>1, SetStateSeq
<1>4. WaitSaved'
  <2>1. i \in DOMAIN tokens' /\ tokens'[i].state = "waiting"
    BY <1>2, <1>3
  <2>2. saving' # 0 /\ saving' <= i
    BY <1>1, <1>2, SMTT(30) DEF PerformFacts
  <2>. QED  BY <2>1, <2>2 DEF WaitSaved
<1>5. TypeExec'
  BY <1>1, <1>3, SMTT(30) DEF PerformFacts, TypeExec
<1>6. Stored'
  BY <1>1, <1>3, <1>4, SMTT(30) DEF PerformFacts, TypeExec, Stored, SubscriptionHasToken
<1>7. Loop'
  BY <1>1 DEF PerformFacts, Loop, CompletedIsQuiet, RunsOnce
<1>. QED  BY <1>5, <1>6, <1>7, Zenon DEF ExecStep

(* The rest of an iteration, from what it does to the tokens. *)
LEMMA LoopGoesOn ==
  ASSUME PerformFacts, Len(tokens) >= 1,
         IsSeq(tokens'), Len(tokens') \in Nat, Len(tokens') >= Len(tokens),
         \A i \in DOMAIN tokens' : tokens'[i].state \in {"active", "completed"},
         saving' = 1, ran' = ran \cup {current},
         \/ pc' = "visit" /\ outcome' = outcome
         \/ pc' = "end" /\ outcome' = "stalled"
         \/ /\ pc' = "end" /\ outcome' = "completed"
            /\ \A i \in DOMAIN tokens' : tokens'[i].state # "active"
  PROVE  ExecStep
<1>1. TypeExec'
  BY SMTT(30) DEF PerformFacts, TypeExec
<1>2. Stored'
  <2>1. saving' # 0 /\ saving' <= Len(trow') + 1 /\ ~registered'
    BY DEF PerformFacts
  <2>2. pc' \in {"visit", "end"}
    OBVIOUS
  <2>3. IsSeq(tokens') /\ IsSeq(trow') /\ (~detached' => tokensOld' = {})
    BY Zenon DEF PerformFacts, Stored
  <2>. QED  BY <2>1, <2>2, <2>3, Zenon DEF Stored, SubscriptionHasToken
<1>3. Loop'
  BY DEF PerformFacts, Loop, CompletedIsQuiet, RunsOnce
<1>. QED  BY <1>1, <1>2, <1>3, Zenon DEF ExecStep

LEMMA LoopEnds ==
  ASSUME PerformFacts, Len(tokens) >= 1, ran' = ran \cup {current}, Ends
  PROVE  ExecStep
<1>. DEFINE here == At(tokens, current)
<1>1. tokens' = SetState(here, "completed") /\ saving' = 1
  BY DEF Ends
<1>2. \/ pc' = "visit" /\ outcome' = outcome
      \/ pc' = "end" /\ outcome' = "completed" /\ Remaining(tokens') = {}
  BY Zenon DEF Ends
<1>. HIDE DEF here
<1>3. /\ IsSeq(tokens') /\ DOMAIN tokens' = DOMAIN tokens /\ Len(tokens') = Len(tokens)
      /\ \A j \in DOMAIN tokens : tokens'[j].state = IF j \in here THEN "completed" ELSE tokens[j].state
  <2>1. IsSeq(tokens)
    BY Zenon DEF PerformFacts, Stored
  <2>. QED  BY <1>1, <2>1, SetStateSeq
<1>4. \A i \in DOMAIN tokens' : tokens'[i].state \in {"active", "completed"}
  BY <1>3, Zenon DEF PerformFacts
<1>5. Remaining(tokens') = {} => \A i \in DOMAIN tokens' : tokens'[i].state # "active"
  BY Zenon DEF Remaining, Active
<1>6. Len(tokens') \in Nat /\ Len(tokens') >= Len(tokens)
  <2>1. Len(tokens) \in Nat
    BY Zenon DEF PerformFacts
  <2>2. Len(tokens') = Len(tokens)
    BY <1>3, Zenon
  <2>. QED  BY <2>1, <2>2
<1>. QED  BY <1>1, <1>2, <1>3, <1>4, <1>5, <1>6, LoopGoesOn

LEMMA LoopMoves ==
  ASSUME PerformFacts, Len(tokens) >= 1, ran' = ran \cup {current}, saving' = 1,
         NEW n, tokens' = MoveTo(At(tokens, current), n),
         \/ pc' = "visit" /\ outcome' = outcome
         \/ pc' = "end" /\ outcome' = "stalled"
  PROVE  ExecStep
<1>1. /\ IsSeq(tokens') /\ DOMAIN tokens' = DOMAIN tokens /\ Len(tokens') = Len(tokens)
      /\ \A j \in DOMAIN tokens : tokens'[j].state = tokens[j].state
  <2>1. IsSeq(tokens)
    BY Zenon DEF PerformFacts, Stored
  <2>. QED  BY <2>1, MoveToSeq
<1>2. \A i \in DOMAIN tokens' : tokens'[i].state \in {"active", "completed"}
  BY <1>1, Zenon DEF PerformFacts
<1>3. Len(tokens') \in Nat /\ Len(tokens') >= Len(tokens)
  <2>1. Len(tokens) \in Nat
    BY Zenon DEF PerformFacts
  <2>2. Len(tokens') = Len(tokens)
    BY <1>1, Zenon
  <2>. QED  BY <2>1, <2>2
<1>4. IsSeq(tokens')
  BY <1>1
<1>. QED  BY <1>2, <1>3, <1>4, LoopGoesOn, ZenonT(30)

LEMMA LoopForks ==
  ASSUME PerformFacts, Len(tokens) >= 1, ran' = ran \cup {current}, saving' = 1, Forks,
         \/ pc' = "visit" /\ outcome' = outcome
         \/ pc' = "end" /\ outcome' = "stalled"
  PROVE  ExecStep
<1>. DEFINE here == At(tokens, current)
            width == Cardinality(here)
            next == ComputeNext(current)
            count == Len(next) * width
            child(k) == [at |-> next[((k - 1) \div width) + 1], state |-> "active"]
            children == [k \in 1..count |-> child(k)]
<1>1. tokens' = tokens \o children
  BY DEF Forks
<1>2. width \in Nat
  <2>1. here \subseteq 1..Len(tokens)
    BY DEF PerformFacts, At, Active
  <2>2. IsFiniteSet(1..Len(tokens))
    BY FS_Interval DEF PerformFacts
  <2>3. IsFiniteSet(here)
    BY <2>1, <2>2, FS_Subset
  <2>. QED  BY <2>3, FS_CardinalityType, Zenon
<1>3. Len(next) \in Nat
  <2>. DEFINE out == model.flows[current]
              taken == {i \in DOMAIN out : model.typed \/ ~out[i].guarded}
              nth(k) == CHOOSE i \in taken : Cardinality({j \in taken : j <= i}) = k
  <2>1. next = [k \in 1..Cardinality(taken) |-> out[nth(k)].to]
    BY DEF ComputeNext
  <2>2. Cardinality(taken) \in Nat
    <3>1. IsFiniteSet(DOMAIN out)
      BY DEF PerformFacts, Nodes
    <3>2. taken \subseteq DOMAIN out
      OBVIOUS
    <3>3. IsFiniteSet(taken)
      BY <3>1, <3>2, FS_Subset, Zenon
    <3>. QED  BY <3>3, FS_CardinalityType, Zenon
  <2>. DEFINE c == Cardinality(taken)
              to(k) == out[nth(k)].to
  <2>3. next = [k \in 1..c |-> to(k)]
    BY <2>1, Zenon
  <2>. HIDE DEF next, c, to
  <2>4. next \in [1..c -> Elems(next)]
    BY <2>3 DEF Elems
  <2>5. c \in Nat
    BY <2>2 DEF c
  <2>. QED  BY <2>4, <2>5, MakesSeq
<1>4. count \in Nat
  BY <1>2, <1>3
<1>. HIDE DEF count, child, next, width
<1>5. IsSeq(children) /\ DOMAIN children = 1..count /\ Len(children) = count
  <2>1. children \in [1..count -> Elems(children)]
    BY Zenon DEF Elems
  <2>. QED  BY <1>4, <2>1, MakesSeq
<1>6. \A k \in DOMAIN children : children[k].state = "active"
  BY Zenon DEF child
<1>. HIDE DEF children
<1>7. /\ IsSeq(tokens') /\ DOMAIN tokens' = 1..(Len(tokens) + count)
      /\ \A i \in DOMAIN tokens' :
           \/ i \in DOMAIN tokens /\ tokens'[i] = tokens[i]
           \/ i - Len(tokens) \in DOMAIN children /\ tokens'[i] = children[i - Len(tokens)]
  BY <1>1, <1>5, ConcatIsSeq, Zenon DEF PerformFacts, Stored
<1>8. \A i \in DOMAIN tokens' : tokens'[i].state \in {"active", "completed"}
  BY <1>6, <1>7 DEF PerformFacts
<1>9. Len(tokens') \in Nat /\ DOMAIN tokens' = 1..Len(tokens')
  BY <1>7, IsSeqDomain, Zenon
<1>10. Len(tokens') = Len(tokens) + count
  BY <1>4, <1>7, <1>9, SMTT(30) DEF PerformFacts
<1>11. Len(tokens') >= Len(tokens)
  BY <1>4, <1>10 DEF PerformFacts
<1>. QED  BY <1>7, <1>8, <1>9, <1>11, LoopGoesOn, ZenonT(30)

LEMMA LoopSucceeds ==
  ASSUME PerformFacts, Len(tokens) >= 1, Succeeds
  PROVE  ExecStep
<1>1. ran' = ran \cup {current}
  BY DEF Succeeds
<1>2. CASE Ends
  BY <1>1, <1>2, LoopEnds
<1>3. CASE ~Ends
  <2>1. /\ Forks \/ Chooses \/ Moves
        /\ saving' = 1
        /\ \/ pc' = "visit" /\ outcome' = outcome
           \/ pc' = "end" /\ outcome' = "stalled"
    BY <1>3 DEF Succeeds
  <2>2. CASE Forks
    BY <1>1, <2>1, <2>2, LoopForks, Zenon
  <2>3. CASE Chooses \/ Moves
    <3>1. tokens' = MoveTo(At(tokens, current), current')
      BY <2>3, Zenon DEF Chooses, Moves
    <3>. QED  BY <1>1, <2>1, <3>1, LoopMoves, Zenon
  <2>. QED  BY <2>1, <2>2, <2>3
<1>. QED  BY <1>2, <1>3

LEMMA LoopExecute ==
  ASSUME IInv, Execute
  PROVE  ExecStep
<1>1. UNCHANGED <<tokensOld, detached>>
  BY DEF Execute
<1>2. CASE Perform
  <2>1. PerformFacts /\ Len(tokens) >= 1
    BY <1>1, <1>2, PerformKnows
  <2>2. Fails \/ Waits \/ Succeeds
    BY <1>2, Zenon DEF Perform
  <2>. QED  BY <2>1, <2>2, LoopFails, LoopWaits, LoopSucceeds, Zenon
<1>. QED  BY <1>1, <1>2, LoopBegin, LoopSave, LoopVisit, LoopRegister, Zenon DEF Execute

(* What the other actors change of the loop's state: where its coroutine is once
   it has ended, the subscription that is deleted, the objects that are replaced. *)
LEMMA LoopOthers ==
  ASSUME IInv,
         UNCHANGED <<model, outcome, current, visited, steps, tokens, saving, trow, branches, ran>>,
         pc' = pc \/ (pc = "idle" /\ pc' = "start") \/ (pc = "end" /\ saving = 0 /\ pc' = "done"),
         registered' => registered,
         ~detached' => ~detached,
         tokensOld' = tokensOld \/ tokensOld' = IF detached THEN DOMAIN trow ELSE {}
  PROVE  ExecStep
<1>1. /\ TypeExec /\ Stored /\ Loop
  BY Facts, Zenon
<1>2. TypeExec'
  BY <1>1, Zenon DEF TypeExec
<1>3. WaitSaved => WaitSaved'
  BY Zenon DEF WaitSaved
<1>4. ~detached' => tokensOld' = {}
  BY <1>1, Zenon DEF Stored
<1>5. Stored'
  BY <1>1, <1>3, <1>4, Zenon DEF Stored, SubscriptionHasToken
<1>6. Loop'
  BY <1>1, Zenon DEF Loop, CompletedIsQuiet, RunsOnce, At, Active, Class, Nodes
<1>. QED  BY <1>2, <1>5, <1>6, Zenon DEF ExecStep

LEMMA LoopCrash ==
  ASSUME IInv, Crash
  PROVE  ExecStep
<1>1. /\ TypeExec /\ Stored /\ Loop
      /\ Len(trow) \in Nat /\ DOMAIN trow = 1..Len(trow)
  BY Facts, Zenon
<1>2. /\ pc' = IF pc = "idle" THEN "idle" ELSE "dead"
      /\ outcome' = "none" /\ visited' = {} /\ steps' = 0 /\ ran' = {}
      /\ tokens' = trow /\ saving' = 0 /\ tokensOld' = {}
      /\ UNCHANGED <<model, trow, registered, detached>>
  BY Zenon DEF Crash
<1>3. TypeExec'
  <2>1. /\ saving' \in 0..Len(tokens') /\ Len(trow') <= Len(tokens')
        /\ steps' \in 0..Limit
    BY <1>1, <1>2, ExecutorAssumption
  <2>2. /\ pc' \in {"idle", "dead"} /\ outcome' = "none" /\ tokensOld' \subseteq DOMAIN trow'
    BY <1>2, Zenon
  <2>. QED  BY <2>1, <2>2, Zenon DEF TypeExec
<1>4. Stored'
  BY <1>1, <1>2 DEF Stored, SubscriptionHasToken
<1>5. pc = "idle" => trow = <<>>
  <2>1. pc = "idle" => Len(trow) = 0
    BY <1>1, EmptyIsSeq, SMTT(30) DEF TypeExec, Loop
  <2>. QED  BY <1>1, <2>1, EmptySeq, Zenon DEF Stored, IsSeq
<1>6. Loop'
  BY <1>1, <1>2, <1>5, Zenon DEF Loop, CompletedIsQuiet, RunsOnce
<1>. QED  BY <1>3, <1>4, <1>6 DEF ExecStep

LEMMA LoopStep ==
  ASSUME IInv, [Next]_vars
  PROVE  ExecStep
<1>1. CASE Finish
  <2>1. /\ UNCHANGED <<model, outcome, current, visited, steps, tokens, saving, trow, branches, ran>>
        /\ UNCHANGED <<registered, detached, tokensOld>>
        /\ pc' = pc \/ (pc = "end" /\ saving = 0 /\ pc' = "done")
    BY <1>1, Zenon DEF Finish
  <2>. QED  BY <2>1, LoopOthers, Zenon
<1>2. CASE \E u \in Updates : Updated(u)
  <2>1. PICK u \in Updates : Updated(u)
    BY <1>2, Zenon
  <2>2. /\ UNCHANGED <<model, outcome, current, visited, steps, tokens, saving, trow, branches, ran>>
        /\ UNCHANGED <<registered, detached, tokensOld>>
        /\ u \in updating /\ pc' = IF u[1] = "executor" THEN "done" ELSE pc
    BY <2>1, Zenon DEF Updated
  <2>3. u[1] = "executor" => pc = "end" /\ saving = 0
    BY <2>2, Zenon DEF IInv, Finishing
  <2>. QED  BY <2>2, <2>3, LoopOthers
<1>3. CASE StartInstance
  BY <1>3, LoopOthers, Zenon DEF StartInstance
<1>4. CASE Delete
  BY <1>4, LoopOthers, Zenon DEF Delete
<1>5. CASE \E to \in {"suspended", "active", "terminated"} : Update(to)
  BY <1>5, LoopOthers, SMTT(30) DEF Update, execVars
<1>6. CASE Start \/ Recovered \/ Stop \/ Stopped \/ Pause \/ Resume
  <2>1. UNCHANGED execVars
    BY <1>6, Zenon DEF Start, Recovered, Stop, Stopped, Pause, Resume, untouched
  <2>2. ~detached' => ~detached
    BY <1>6, Zenon DEF Start, Recovered, Stop, Stopped, Pause, Resume
  <2>3. tokensOld' = tokensOld \/ tokensOld' = IF detached THEN DOMAIN trow ELSE {}
    BY <1>6, Zenon DEF Start, Recovered, Stop, Stopped, Pause, Resume
  <2>. QED  BY <2>1, <2>2, <2>3, LoopOthers, Zenon DEF execVars
<1>7. CASE UNCHANGED vars
  BY <1>7, LoopOthers DEF vars, execVars, engVars
<1>. QED  BY <1>1, <1>2, <1>3, <1>4, <1>5, <1>6, <1>7, LoopExecute, LoopCrash, Zenon DEF Next

-----------------------------------------------------------------------------
LEMMA TypeStep ==
  ASSUME IInv, [Next]_vars
  PROVE  TypeOK'
<1>1. TypeExec'
  BY LoopStep DEF ExecStep
<1>2. TypeOK
  BY Zenon DEF IInv
<1>3. /\ life' \in {"stopped", "starting", "running", "paused", "stopping", "error"}
      /\ admin' \in {"none", "recovering", "stopping"}
  BY <1>2, Zenon DEF TypeOK, Next, StartInstance, Execute, Finish, Update, Updated, Delete, Start, Recovered,
     Stop, Stopped, Pause, Resume, Crash, AdminCall, vars, engVars
<1>4. bus' \in BOOLEAN /\ sched' \in BOOLEAN /\ hold' \in BOOLEAN
      /\ finishing' \in BOOLEAN /\ detached' \in BOOLEAN
  BY <1>2, Zenon DEF TypeOK, Next, StartInstance, Execute, Finish, Update, Updated, Delete, Start, Recovered,
     Stop, Stopped, Pause, Resume, Crash, AdminCall, untouched, vars, engVars
<1>5. inst' \in States /\ row' \in States /\ listed' \subseteq {"active", "suspended"}
  BY <1>2, ZenonT(30) DEF TypeOK, Next, StartInstance, Execute, Finish, Update, Updated, Delete, Start, Recovered,
     Stop, Stopped, Pause, Resume, Crash, untouched, vars, engVars, Saved, Relist, States
<1>6. updating' \subseteq Updates
  <2>1. updating \subseteq Updates
    BY <1>2 DEF TypeOK
  <2>2. CASE Finish
    BY <2>1, <2>2, SMTT(30) DEF Finish, Updates, States
  <2>3. CASE \E to \in {"suspended", "active", "terminated"} : Update(to)
    BY <2>1, <2>3 DEF Update, Updates, States
  <2>4. CASE \E u \in Updates : Updated(u)
    BY <2>1, <2>4 DEF Updated
  <2>5. CASE StartInstance \/ Execute \/ Delete \/ Start \/ Recovered \/ Stop \/ Stopped
             \/ Pause \/ Resume \/ Crash \/ UNCHANGED vars
    BY <2>1, <2>5, Zenon DEF StartInstance, Execute, Delete, Start, Recovered, Stop, Stopped, Pause, Resume,
       Crash, untouched, vars, engVars
  <2>. QED  BY <2>2, <2>3, <2>4, <2>5 DEF Next
<1>. QED  BY <1>1, <1>3, <1>4, <1>5, <1>6 DEF TypeOK, TypeExec

LEMMA NextIInv ==
  ASSUME IInv, [Next]_vars
  PROVE  IInv'
<1>1. Rows' /\ Sets'
  BY InstanceOk DEF InstanceStep
<1>2. Stored' /\ Loop'
  BY LoopStep DEF ExecStep
<1>. QED  BY <1>1, <1>2, ServicesStep, FinishingStep, TypeStep, Zenon DEF IInv

(* The inductive invariant holds in every reachable state. *)
THEOREM Invariance == Spec => []IInv
BY InitIInv, NextIInv, PTL DEF Spec

(* Types, for any models and limits. *)
THEOREM TypeCorrect == Spec => []TypeOK
<1>1. IInv => TypeOK
  BY DEF IInv
<1>. QED  BY <1>1, Invariance, PTL

(* An execution that ProcessExecutor.execute reports as completed leaves no token
   active or waiting, whatever the process model. *)
THEOREM Quiet == Spec => []CompletedIsQuiet
<1>1. IInv => CompletedIsQuiet
  BY Zenon DEF IInv, Loop
<1>. QED  BY <1>1, Invariance, PTL

(* The set visited keeps the token loop from executing an activity twice. *)
THEOREM ActivitiesRunOnce == Spec => []RunsOnce
<1>1. IInv => RunsOnce
  BY Zenon DEF IInv, Loop
<1>. QED  BY <1>1, Invariance, PTL

(* A subscription made by _register_wait has a saved token that waits, also after
   a crash at any point, as long as no engine was started under the execution. *)
THEOREM WaitsAreSaved == Spec => []SubscriptionHasToken
<1>1. IInv => SubscriptionHasToken
  BY Zenon DEF IInv, Stored
<1>. QED  BY <1>1, Invariance, PTL

(* update_instance_state keeps the sets of active and suspended instances in step
   with the states, although it changes them only after its saves. *)
THEOREM SetsAgree == Spec => []SetsFollow
<1>1. IInv => SetsFollow
  BY Zenon DEF IInv, Sets, SetsFollow
<1>. QED  BY <1>1, Invariance, PTL

(* start, stop, pause and resume leave bus and scheduler as the engine's state
   says, after failed starts too. *)
THEOREM ServicesAgree == Spec => []ServicesFollow
<1>1. IInv => ServicesFollow
  BY DEF IInv, Services
<1>. QED  BY <1>1, Invariance, PTL

(* A completed or terminated instance does not change again: not by the end of
   its execution, an operator, a restart or a crash. *)
THEOREM FinalStaysFinal == Spec => FinalIsFinal
<1>1. ASSUME IInv, [Next]_vars
      PROVE  [/\ row \in Final => row' = row
              /\ inst \in Final => inst' \in {inst, "none"}]_vars
  BY <1>1, InstanceOk DEF InstanceStep
<1>. QED  BY <1>1, Invariance, PTL DEF Spec, FinalIsFinal

-----------------------------------------------------------------------------
(* How far an execution is from its end: the steps the loop may still take, the
   place in the iteration, and the tokens that _persist_tokens has still to save. *)
Ahead ==
  CASE pc = "start"                 -> 5
    [] pc = "perform"               -> 4
    [] pc \in {"visit", "register"} -> 3
    [] pc = "end" /\ ~finishing     -> 2
    [] pc = "end" /\ finishing      -> 1
    [] OTHER                        -> 0
ToSave == IF saving = 0 THEN 0 ELSE Len(tokens) - saving + 1

Executing == pc \notin {"idle", "done", "dead"}
ExecutorStep == Execute \/ Finish \/ \E to \in States : Updated(<<"executor", to>>)

(* The execution comes closer to its end, lexicographically, and what is left
   stays a natural number. *)
Closer ==
  /\ Limit - steps' \in Nat /\ ToSave' \in Nat
  /\ \/ steps' > steps
     \/ steps' = steps /\ Ahead' < Ahead
     \/ steps' = steps /\ Ahead' = Ahead /\ ToSave' < ToSave

(* Every step of an execution brings it closer to its end, and nobody else takes
   it away from there, except that a crash ends it. *)
ExecutionAdvances ==
  [][/\ ExecutorStep => Closer
     /\ Executing /\ ~ExecutorStep => UNCHANGED <<steps, Ahead, ToSave>> \/ pc' = "dead"]_vars

(* The values of Ahead, place by place. *)
LEMMA AheadValues ==
  /\ pc = "start" => Ahead = 5
  /\ pc = "perform" => Ahead = 4
  /\ pc \in {"visit", "register"} => Ahead = 3
  /\ pc = "end" => Ahead = IF finishing THEN 1 ELSE 2
  /\ pc \in {"idle", "done", "dead"} => Ahead = 0
BY DEF Ahead

(* The same after a step. *)
LEMMA AheadValuesNext ==
  /\ pc' = "start" => Ahead' = 5
  /\ pc' = "perform" => Ahead' = 4
  /\ pc' \in {"visit", "register"} => Ahead' = 3
  /\ pc' = "end" => Ahead' = IF finishing' THEN 1 ELSE 2
  /\ pc' \in {"idle", "done", "dead"} => Ahead' = 0
BY DEF Ahead

(* What is left is a natural number in every state. *)
LEMMA LeftIsNat ==
  ASSUME IInv
  PROVE  Limit - steps \in Nat /\ ToSave \in Nat
<1>1. Len(tokens) \in Nat /\ steps \in 0..Limit /\ saving \in 0..Len(tokens)
  BY IsSeqDomain, Zenon DEF IInv, Stored, TypeOK
<1>2. Limit - steps \in Nat
  <2>1. Limit \in Nat
    BY ExecutorAssumption
  <2>. HIDE ExecutorAssumption, EngineAssumption
  <2>. QED  BY <1>1, <2>1
<1>3. Len(tokens) - saving + 1 \in Nat
  BY <1>1
<1>. QED  BY <1>2, <1>3 DEF ToSave

(* Only the head of the loop leads back to an earlier place, and it counts a step. *)
LEMMA ExecuteCloser ==
  ASSUME IInv, Execute
  PROVE  \/ steps' > steps
         \/ steps' = steps /\ Ahead' < Ahead
         \/ steps' = steps /\ Ahead' = Ahead /\ ToSave' < ToSave
<1>0. finishing' = finishing /\ steps \in Nat
  BY DEF Execute, IInv, TypeOK
<1>1. CASE Begin
  <2>1. pc = "start" /\ pc' \in {"visit", "end"} /\ steps' = steps
    BY <1>1 DEF Begin
  <2>. QED  BY <2>1, AheadValues, AheadValuesNext
<1>2. CASE SaveToken(tokensOld)
  <2>1. /\ saving # 0 /\ saving' = IF saving = Len(tokens) THEN 0 ELSE saving + 1
        /\ UNCHANGED <<pc, steps, tokens>>
    BY <1>2, Zenon DEF SaveToken
  <2>2. Len(tokens) \in Nat /\ saving \in 0..Len(tokens)
    BY IsSeqDomain, Zenon DEF IInv, Stored, TypeOK
  <2>3. Ahead' = Ahead
    BY <1>0, <2>1, Zenon DEF Ahead
  <2>4. ToSave' < ToSave
    BY <2>1, <2>2 DEF ToSave
  <2>. QED  BY <2>1, <2>3, <2>4
<1>3. CASE Visit
  <2>1. pc = "visit" /\ (steps' = steps + 1 \/ (steps' = steps /\ pc' = "end"))
    BY <1>3, Zenon DEF Visit, Counted
  <2>. QED  BY <1>0, <2>1, AheadValues, AheadValuesNext
<1>4. CASE Perform
  <2>1. pc = "perform" /\ steps' = steps /\ pc' \in {"visit", "register", "end"}
    BY <1>4, Zenon DEF Perform, Fails, Waits, Succeeds, Ends
  <2>. QED  BY <2>1, AheadValues, AheadValuesNext
<1>5. CASE Register
  <2>1. pc = "register" /\ pc' = "end" /\ steps' = steps
    BY <1>5 DEF Register
  <2>. QED  BY <2>1, AheadValues, AheadValuesNext
<1>. QED  BY <1>1, <1>2, <1>3, <1>4, <1>5, Zenon DEF Execute

(* The end of execute_instance, with its update. *)
LEMMA EndCloser ==
  ASSUME IInv, Finish \/ \E to \in States : Updated(<<"executor", to>>)
  PROVE  steps' = steps /\ Ahead' < Ahead
<1>1. CASE Finish
  <2>1. /\ pc = "end" /\ ~finishing /\ steps' = steps
        /\ (pc' = "end" /\ finishing') \/ pc' = "done"
    BY <1>1, Zenon DEF Finish
  <2>. QED  BY <2>1, AheadValues, AheadValuesNext
<1>2. ASSUME NEW to \in States, Updated(<<"executor", to>>)
      PROVE  steps' = steps /\ Ahead' < Ahead
  <2>. DEFINE u == <<"executor", to>>
  <2>1. u \in updating /\ u[1] = "executor"
    BY <1>2 DEF Updated
  <2>2. pc = "end" /\ finishing
    BY <2>1, Zenon DEF IInv, Finishing
  <2>3. pc' = "done" /\ steps' = steps
    BY <1>2 DEF Updated
  <2>. QED  BY <2>2, <2>3, AheadValues, AheadValuesNext
<1>. QED  BY <1>1, <1>2, Zenon

(* Operators, administrators and crashes. *)
LEMMA OthersKeep ==
  ASSUME IInv, [Next]_vars, Executing, ~ExecutorStep
  PROVE  UNCHANGED <<steps, Ahead, ToSave>> \/ pc' = "dead"
<1>1. CASE UNCHANGED <<pc, finishing, steps, saving, tokens>>
  BY <1>1, Zenon DEF Ahead, ToSave
<1>2. ASSUME NEW u \in Updates, Updated(u)
      PROVE  UNCHANGED <<pc, finishing, steps, saving, tokens>>
  <2>1. u[1] # "executor"
    <3>1. u[2] \in States /\ u = <<u[1], u[2]>>
      BY DEF Updates
    <3>. QED  BY <1>2, <3>1, Zenon DEF ExecutorStep
  <2>. QED  BY <1>2, <2>1, Zenon DEF Updated
<1>3. ~StartInstance
  BY DEF StartInstance, Executing
<1>4. CASE Crash
  BY <1>4 DEF Crash, Executing
<1>5. CASE \/ \E to \in {"suspended", "active", "terminated"} : Update(to)
           \/ Delete \/ Start \/ Recovered \/ Stop \/ Stopped \/ Pause \/ Resume \/ UNCHANGED vars
  BY <1>1, <1>5, Zenon DEF Update, Delete, Start, Recovered, Stop, Stopped, Pause, Resume,
     untouched, execVars, engVars, vars
<1>. QED  BY <1>1, <1>2, <1>3, <1>4, <1>5, Zenon DEF Next, ExecutorStep

(* No execution goes on for ever, whatever the process model: every step of
   ProcessExecutor.execute and of the end of execute_instance brings it closer to
   its end, and no operator, administrator or restart moves it back. *)
THEOREM Advances == Spec => ExecutionAdvances
<1>1. ASSUME IInv, [Next]_vars
      PROVE  [/\ ExecutorStep => Closer
              /\ Executing /\ ~ExecutorStep => UNCHANGED <<steps, Ahead, ToSave>> \/ pc' = "dead"]_vars
  <2>1. (Limit - steps \in Nat /\ ToSave \in Nat)'
    <3>1. IInv'
      BY <1>1, NextIInv
    <3>. QED  BY <3>1, LeftIsNat, PTL
  <2>2. ExecutorStep => Closer
    BY <1>1, <2>1, ExecuteCloser, EndCloser, Zenon DEF ExecutorStep, Closer
  <2>. QED  BY <1>1, <2>2, OthersKeep, Zenon
<1>. QED  BY <1>1, Invariance, PTL DEF Spec, ExecutionAdvances
=============================================================================
