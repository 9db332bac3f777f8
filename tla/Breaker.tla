------------------------------ MODULE Breaker ------------------------------
(***************************************************************************)
(* The circuit breaker that guards every operation of the service client   *)
(* (engines/communication/consumption/circuit_breaker.py), and the calls   *)
(* that run through its execute().                                         *)
(*                                                                         *)
(* No section under the lock suspends, so each is one step, and nobody     *)
(* ever waits for the lock; a call suspends in the guarded function only.  *)
(* A refused call changes nothing and is not a step.  failure_count is     *)
(* only compared with the threshold, and is kept up to it.                 *)
(***************************************************************************)
EXTENDS Integers, FiniteSets

CONSTANTS Callers,      \* coroutines that call execute(), each one call at a time
          Threshold,    \* failure_threshold
          MaxProbes     \* half_open_max_calls

ASSUME BreakerAssumption ==
  /\ Threshold \in Nat \ {0}
  /\ MaxProbes \in Nat

VARIABLES state,     \* CircuitBreaker.state
          failures,  \* failure_count, up to Threshold
          opened,    \* _opened_at: None, not long ago, or recovery_timeout_ms ago
          probes,    \* _half_open_calls
          calling,   \* callers inside the guarded function
          trial,     \* history: calls let through since the breaker half opened
          lapses     \* history: failures since the last success, up to Threshold

vars == <<state, failures, opened, probes, calling, trial, lapses>>

TypeOK ==
  /\ state \in {"closed", "open", "half_open"}
  /\ failures \in 0..Threshold
  /\ opened \in {"none", "recent", "elapsed"}
  /\ probes \in 0..MaxProbes
  /\ calling \subseteq Callers
  /\ trial \in Nat
  /\ lapses \in 0..Threshold

Init ==
  /\ state = "closed" /\ failures = 0 /\ opened = "none" /\ probes = 0
  /\ calling = {} /\ trial = 0 /\ lapses = 0

Capped(n) == IF n < Threshold THEN n + 1 ELSE Threshold

-----------------------------------------------------------------------------
(* recovery_timeout_ms have passed since _opened_at. *)
Elapse ==
  /\ opened = "recent"
  /\ opened' = "elapsed"
  /\ UNCHANGED <<state, failures, probes, calling, trial, lapses>>

(* _allow_request, when it returns True. *)
AdmitClosed ==
  /\ state = "closed"
  /\ UNCHANGED <<state, probes, trial>>

(* Mutant of AdmitFirstProbe: the limit of probes is tested first. *)
AdmitFirstProbe_Limited ==
  /\ state = "open" /\ opened = "elapsed" /\ probes < MaxProbes
  /\ state' = "half_open" /\ probes' = 0 /\ trial' = 1

AdmitFirstProbe ==
  /\ state = "open" /\ opened = "elapsed"
  /\ state' = "half_open" /\ probes' = 0 /\ trial' = 1

(* Mutant of AdmitProbe: the limit is inclusive. *)
AdmitProbe_Inclusive ==
  /\ state = "half_open" /\ probes <= MaxProbes
  /\ probes' = probes + 1 /\ trial' = trial + 1
  /\ UNCHANGED state

AdmitProbe ==
  /\ state = "half_open" /\ probes < MaxProbes
  /\ probes' = probes + 1 /\ trial' = trial + 1
  /\ UNCHANGED state

Admit(c) ==
  /\ c \notin calling
  /\ calling' = calling \cup {c}
  /\ AdmitClosed \/ AdmitFirstProbe \/ AdmitProbe
  /\ UNCHANGED <<failures, opened, lapses>>

(* Mutant of Succeed: a success does not forgive earlier failures. *)
Succeed_KeepsCount(c) ==
  /\ c \in calling
  /\ calling' = calling \ {c}
  /\ state' = "closed" /\ opened' = "none" /\ probes' = 0
  /\ trial' = 0 /\ lapses' = 0
  /\ UNCHANGED failures

(* The function returns: _on_success. *)
Succeed(c) ==
  /\ c \in calling
  /\ calling' = calling \ {c}
  /\ state' = "closed" /\ failures' = 0 /\ opened' = "none" /\ probes' = 0
  /\ trial' = 0 /\ lapses' = 0

(* The function raises an Exception: _on_failure.  Opening does not reset the
   count, and an open breaker that meets a late failure starts its timeout
   again. *)
Fail(c) ==
  /\ c \in calling
  /\ calling' = calling \ {c}
  /\ failures' = Capped(failures)
  /\ lapses' = Capped(lapses)
  /\ IF failures' >= Threshold
     THEN state' = "open" /\ opened' = "recent"
     ELSE UNCHANGED <<state, opened>>
  /\ UNCHANGED <<probes, trial>>

(* The call is cancelled: CancelledError is not an Exception, and neither
   _on_success nor _on_failure runs. *)
Cancel(c) ==
  /\ c \in calling
  /\ calling' = calling \ {c}
  /\ UNCHANGED <<state, failures, opened, probes, trial, lapses>>

Next ==
  \/ Elapse
  \/ \E c \in Callers : Admit(c) \/ Succeed(c) \/ Fail(c) \/ Cancel(c)

Spec == Init /\ [][Next]_vars

(* Time passes, calls end, and somebody keeps calling the service. *)
FairSpec ==
  /\ Spec
  /\ WF_vars(Elapse)
  /\ WF_vars(\E c \in Callers : Admit(c))
  /\ \A c \in Callers : WF_vars(Succeed(c) \/ Fail(c) \/ Cancel(c))

-----------------------------------------------------------------------------
(* The breaker trips exactly when failure_threshold calls have failed since the
   last success, whatever calls end late: it is closed below the threshold and
   not closed from there on. *)
TripsAtThreshold == state = "closed" <=> lapses < Threshold

(* An open breaker knows since when, so the branch of _allow_request for an
   open breaker without _opened_at is never taken; a half open one has waited
   for its timeout. *)
OpenIsTimed ==
  /\ state = "open" => opened \in {"recent", "elapsed"}
  /\ state = "half_open" => opened = "elapsed"
  /\ state = "closed" => opened = "none"

(* A half open breaker lets at most half_open_max_calls calls through beside
   the one that half opened it. *)
ProbesLimited == state = "half_open" => trial <= MaxProbes + 1

(* One failed probe is enough to open a half open breaker again: the count of
   failures is still at the threshold. *)
ProbeFailureReopens ==
  [][state = "half_open" /\ (\E c \in Callers : Fail(c)) => state' = "open"]_vars

(* An open breaker does not stay open for ever: late failures postpone the
   recovery, but there are only so many of them. *)
OpenRecovers == state = "open" ~> state # "open"

(* "HALF_OPEN -> CLOSED" (the technical specification): as long as somebody
   keeps calling, a half open breaker closes or opens again. *)
HalfOpenEnds == state = "half_open" ~> state # "half_open"
=============================================================================
