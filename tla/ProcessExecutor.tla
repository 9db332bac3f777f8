--------------------------- MODULE ProcessExecutor ---------------------------
(***************************************************************************)
(* The token loop that executes one BPMN process instance                  *)
(* (orchestration/bpmn/process_executor.py, with the flow selection of     *)
(* sequence_flow.py and the gateways of gateway_classifier.py).            *)
(*                                                                         *)
(* A process model names the kind of each node, its outgoing flows in      *)
(* document order, and whether the payload carried typed flow_elements.    *)
(* BPMNEngine sends none, and gateways are then plain nodes; the gateway   *)
(* branches of the loop run for a payload that has them.  A flow is        *)
(* guarded when its condition reads variables: without typed elements it   *)
(* is evaluated without any, and not taken.                                *)
(*                                                                         *)
(* Token rows are saved one by one, each save a suspension.  The lists of  *)
(* started and finished activities, variables and published events have no *)
(* influence on the loop and are left out.                                 *)
(***************************************************************************)
EXTENDS Integers, Sequences, FiniteSets

CONSTANTS Models,     \* process models that may be executed
          Limit       \* the step limit of the loop, 200 in the code

ASSUME ExecutorAssumption ==
  /\ Limit \in Nat \ {0}
  /\ \A m \in Models : \A n \in DOMAIN m.kind : IsFiniteSet(DOMAIN m.flows[n])

VARIABLES model,      \* the model that is executed
          pc,         \* where execute() is
          outcome,    \* how it ended
          current,    \* current
          visited,    \* visited
          steps,      \* guard_steps
          tokens,     \* active_tokens, in the order of creation
          saving,     \* the token that _persist_tokens saves next, 0 if none
          trow,       \* rows of the tokens, by token
          branches,   \* activated_branches: the targets chosen at a gateway
          registered, \* the wait has a subscription (correlation engine)
          ran         \* history: nodes whose activity was executed

execVars == <<model, pc, outcome, current, visited, steps, tokens, saving, trow,
              branches, registered, ran>>

NoNode == "none"    \* a model without start event
GatewayKinds == {"parallel", "exclusive", "inclusive", "complex"}
Nodes == DOMAIN model.kind

ExecInit ==
  /\ model \in Models
  /\ pc = "idle" /\ outcome = "none"
  /\ current = model.start /\ visited = {} /\ steps = 0
  /\ tokens = <<>> /\ saving = 0 /\ trow = <<>>
  /\ branches = [n \in Nodes |-> {}]
  /\ registered = FALSE /\ ran = {}

Least(S) == CHOOSE i \in S : \A j \in S : i <= j

-----------------------------------------------------------------------------
(* classify_gateway_typed *)
Class(n) ==
  IF model.typed /\ n \in Nodes /\ model.kind[n] \in GatewayKinds
  THEN model.kind[n] ELSE "none"

(* _compute_next: the targets of the flows, in document order. *)
ComputeNext(n) ==
  LET out == model.flows[n]
      taken == {i \in DOMAIN out : model.typed \/ ~out[i].guarded}
      nth(k) == CHOOSE i \in taken : Cardinality({j \in taken : j <= i}) = k
  IN  [k \in 1..Cardinality(taken) |-> out[nth(k)].to]

(* evaluate_gateway_split_typed: the flows whose condition holds, else the first
   without a condition, else the first. *)
Selections(n) ==
  LET out == model.flows[n]
      guarded == {i \in DOMAIN out : out[i].guarded}
      plain == DOMAIN out \ guarded
  IN  IF Len(out) <= 1 THEN {DOMAIN out}
      ELSE (SUBSET guarded \ {{}}) \cup {{IF plain # {} THEN Least(plain) ELSE 1}}

Active(toks) == {i \in DOMAIN toks : toks[i].state = "active"}
At(toks, n) == {i \in Active(toks) : toks[i].at = n}

(* The test in front of a converging gateway: enough tokens have arrived.  The
   fork of an inclusive join is the source of an incoming flow. *)
JoinPasses(n, toks, chosen) ==
  LET incoming == {e \in Nodes \X (1..Cardinality(Nodes)) :
                     e[2] \in DOMAIN model.flows[e[1]] /\ model.flows[e[1]][e[2]].to = n}
      forks == {e[1] : e \in {d \in incoming : Class(d[1]) \in {"inclusive", "parallel"}}}
      fork == CHOOSE g \in forks : TRUE
      expected == IF Class(n) = "inclusive" /\ forks # {} /\ chosen[fork] # {}
                  THEN Cardinality(chosen[fork])
                  ELSE Cardinality(incoming)
  IN  Class(n) \in {"inclusive", "complex"} => Cardinality(At(toks, n)) >= expected

(* The tokens S move to a node, or change their state. *)
MoveTo(S, n) ==
  [i \in DOMAIN tokens |-> IF i \in S THEN [at |-> n, state |-> tokens[i].state] ELSE tokens[i]]
SetState(S, v) ==
  [i \in DOMAIN tokens |-> IF i \in S THEN [at |-> tokens[i].at, state |-> v] ELSE tokens[i]]

-----------------------------------------------------------------------------
(* execute() up to its loop: a model without start node is complete, else
   _ensure_runtime_token makes the first token. *)
Begin ==
  /\ pc = "start"
  /\ IF model.start = NoNode
     THEN pc' = "end" /\ outcome' = "completed" /\ UNCHANGED tokens
     ELSE /\ pc' = "visit"
          /\ tokens' = <<[at |-> model.start, state |-> "active"]>>
          /\ UNCHANGED outcome
  /\ UNCHANGED <<model, current, visited, steps, saving, trow, branches, registered, ran>>

(* _persist_tokens, one token. *)
SaveToken(kept) ==
  /\ saving # 0
  /\ saving' = IF saving = Len(tokens) THEN 0 ELSE saving + 1
  /\ trow' = IF saving \in kept THEN trow
             ELSE IF saving <= Len(trow) THEN [trow EXCEPT ![saving] = tokens[saving]]
             ELSE Append(trow, tokens[saving])
  /\ UNCHANGED <<model, pc, outcome, current, visited, steps, tokens, branches, registered, ran>>

(* The loop is left with a break while current is set; the step limit is tested
   once more. *)
Break ==
  /\ outcome' = IF steps' >= Limit THEN "raised" ELSE "stalled"
  /\ pc' = "end"
  /\ UNCHANGED saving

(* guard_steps += 1 *)
Counted == steps + 1

(* Mutant of Remembered: the node is not added to visited. *)
Remembered_Never == visited

(* visited.add(current) *)
Remembered == visited \cup {current}

(* The head of the loop, up to the call of the activity. *)
Visit ==
  /\ pc = "visit" /\ saving = 0
  /\ \/ /\ steps >= Limit
        /\ outcome' = "raised" /\ pc' = "end"
        /\ UNCHANGED <<visited, steps, saving>>
     \/ /\ steps < Limit
        /\ steps' = Counted
        /\ current \in visited /\ Class(current) = "none"
        /\ Break /\ UNCHANGED visited
     \/ /\ steps < Limit
        /\ steps' = Counted
        /\ current \notin visited \/ Class(current) # "none"
        /\ visited' = Remembered
        /\ IF current \notin Nodes \/ At(tokens, current) = {}
           THEN Break
           ELSE pc' = "perform" /\ saving' = 1 /\ UNCHANGED outcome
  /\ UNCHANGED <<model, current, tokens, trow, branches, registered, ran>>

(* The activity fails: the exception leaves execute(). *)
Fails ==
  /\ model.kind[current] = "task"
  /\ outcome' = "raised" /\ pc' = "end"
  /\ UNCHANGED <<current, tokens, saving, branches, ran>>

(* Mutant of Waits: the tokens are not saved before the wait is registered. *)
Waits_Unsaved ==
  /\ model.kind[current] = "receive"
  /\ tokens' = SetState(At(tokens, current), "waiting")
  /\ pc' = "register"
  /\ ran' = ran \cup {current}
  /\ UNCHANGED <<outcome, current, saving, branches>>

(* A receive or send task with a message waits: the tokens wait and are saved. *)
Waits ==
  /\ model.kind[current] = "receive"
  /\ tokens' = SetState(At(tokens, current), "waiting")
  /\ saving' = 1
  /\ pc' = "register"
  /\ ran' = ran \cup {current}
  /\ UNCHANGED <<outcome, current, branches>>

(* Mutant of Remaining: only the tokens at the node are looked at. *)
Remaining_Here(toks) == {}

(* remaining_active *)
Remaining(toks) == Active(toks)

(* No next node: the tokens here complete, and the loop turns to the first token
   that is still active. *)
Ends ==
  /\ ComputeNext(current) = <<>>
  /\ tokens' = SetState(At(tokens, current), "completed")
  /\ saving' = 1
  /\ IF Remaining(tokens') = {}
     THEN outcome' = "completed" /\ pc' = "end" /\ UNCHANGED current
     ELSE current' = tokens'[Least(Remaining(tokens'))].at /\ pc' = "visit" /\ UNCHANGED outcome
  /\ UNCHANGED branches

(* A parallel gateway: a child per target and token; the tokens themselves stay
   where they are, active. *)
Forks ==
  /\ Class(current) = "parallel"
  /\ LET next == ComputeNext(current)
         width == Cardinality(At(tokens, current))
     IN  /\ next # <<>>
         /\ tokens' = tokens \o [k \in 1..(Len(next) * width) |->
                                   [at |-> next[((k - 1) \div width) + 1], state |-> "active"]]
         /\ current' = next[1]
  /\ UNCHANGED branches

(* An exclusive or inclusive gateway: the tokens follow the first chosen flow. *)
Chooses ==
  /\ Class(current) \in {"exclusive", "inclusive"}
  /\ ComputeNext(current) # <<>>
  /\ \E picked \in Selections(current) :
       /\ current' = ComputeNext(current)[Least(picked)]
       /\ branches' = IF Class(current) = "inclusive"
                      THEN [branches EXCEPT ![current] = {model.flows[current][i].to : i \in picked}]
                      ELSE branches
  /\ tokens' = MoveTo(At(tokens, current), current')

(* Any other node: the tokens follow the first flow. *)
Moves ==
  /\ Class(current) \notin {"parallel", "exclusive", "inclusive"}
  /\ ComputeNext(current) # <<>>
  /\ current' = ComputeNext(current)[1]
  /\ tokens' = MoveTo(At(tokens, current), current')
  /\ UNCHANGED branches

(* The activity succeeds, and the rest of the iteration. *)
Succeeds ==
  /\ model.kind[current] # "receive"
  /\ ran' = ran \cup {current}
  /\ \/ Ends
     \/ /\ Forks \/ Chooses \/ Moves
        /\ saving' = 1
        /\ IF JoinPasses(current', tokens', branches')
           THEN pc' = "visit" /\ UNCHANGED outcome
           ELSE pc' = "end" /\ outcome' = "stalled"

Perform ==
  /\ pc = "perform" /\ saving = 0
  /\ Fails \/ Waits \/ Succeeds
  /\ UNCHANGED <<model, visited, steps, trow, registered>>

(* _register_wait, and the return of execute(). *)
Register ==
  /\ pc = "register" /\ saving = 0
  /\ registered' = TRUE
  /\ outcome' = "waiting" /\ pc' = "end"
  /\ UNCHANGED <<model, current, visited, steps, tokens, saving, trow, branches, ran>>

-----------------------------------------------------------------------------
(* An execution that reports completion leaves no token behind: none active,
   none waiting, whatever gateways were passed. *)
CompletedIsQuiet ==
  outcome = "completed" => \A i \in DOMAIN tokens : tokens[i].state = "completed"

(* No activity is executed twice, also when flows lead back to it; only gateways
   may be passed again. *)
RunsOnce == pc = "perform" /\ current \in ran => Class(current) # "none"

(* "Token-based execution with proper gateway join/fork synchronization" (the
   module's docstring): when the execution is complete, every branch of every
   parallel gateway that was reached has been executed. *)
ForkRunsAll ==
  outcome = "completed" =>
    \A n \in ran : model.kind[n] = "parallel" =>
      \A i \in DOMAIN model.flows[n] : model.flows[n][i].to \in ran
=============================================================================
