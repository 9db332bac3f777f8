--------------------------- MODULE BreakerProofs ---------------------------
(***************************************************************************)
(* Proofs about Breaker, for any callers, thresholds and probe limits.     *)
(***************************************************************************)
EXTENDS Breaker, TLAPS

USE BreakerAssumption

(* failure_count is the number of failures since the last success, and a half
   open breaker has counted every call it let through but the first. *)
Accounted ==
  /\ failures = lapses
  /\ state = "half_open" => trial = probes + 1

IInv == TypeOK /\ Accounted /\ TripsAtThreshold /\ OpenIsTimed

LEMMA InitIInv == Init => IInv
BY DEF Init, IInv, TypeOK, Accounted, TripsAtThreshold, OpenIsTimed

LEMMA CappedRange ==
  ASSUME NEW n \in 0..Threshold
  PROVE  Capped(n) \in 0..Threshold /\ (Capped(n) < Threshold => n < Threshold)
BY DEF Capped

LEMMA AdmitIInv ==
  ASSUME IInv, NEW c \in Callers, Admit(c)
  PROVE  IInv'
<1>1. CASE AdmitClosed
  BY <1>1 DEF IInv, TypeOK, Accounted, TripsAtThreshold, OpenIsTimed, Admit, AdmitClosed
<1>2. CASE AdmitFirstProbe
  BY <1>2 DEF IInv, TypeOK, Accounted, TripsAtThreshold, OpenIsTimed, Admit, AdmitFirstProbe
<1>3. CASE AdmitProbe
  BY <1>3 DEF IInv, TypeOK, Accounted, TripsAtThreshold, OpenIsTimed, Admit, AdmitProbe
<1>. QED  BY <1>1, <1>2, <1>3 DEF Admit

LEMMA FailIInv ==
  ASSUME IInv, NEW c \in Callers, Fail(c)
  PROVE  IInv'
<1>1. failures \in 0..Threshold /\ failures = lapses
  BY DEF IInv, TypeOK, Accounted
<1>2. failures' = lapses' /\ failures' \in 0..Threshold
  BY <1>1, CappedRange DEF Fail
<1>3. CASE failures' >= Threshold
  BY <1>2, <1>3 DEF IInv, TypeOK, Accounted, TripsAtThreshold, OpenIsTimed, Fail
<1>4. CASE ~(failures' >= Threshold)
  <2>1. failures < Threshold /\ failures' < Threshold
    BY <1>1, <1>2, <1>4, CappedRange DEF Fail
  <2>. QED
    BY <1>1, <1>2, <1>4, <2>1 DEF IInv, TypeOK, Accounted, TripsAtThreshold, OpenIsTimed, Fail
<1>. QED  BY <1>3, <1>4

LEMMA NextIInv == IInv /\ [Next]_vars => IInv'
<1>. SUFFICES ASSUME IInv, [Next]_vars
              PROVE  IInv'
  OBVIOUS
<1>1. CASE Elapse
  BY <1>1 DEF IInv, TypeOK, Accounted, TripsAtThreshold, OpenIsTimed, Elapse
<1>2. ASSUME NEW c \in Callers, Succeed(c)
      PROVE  IInv'
  BY <1>2 DEF IInv, TypeOK, Accounted, TripsAtThreshold, OpenIsTimed, Succeed
<1>3. ASSUME NEW c \in Callers, Cancel(c)
      PROVE  IInv'
  BY <1>3 DEF IInv, TypeOK, Accounted, TripsAtThreshold, OpenIsTimed, Cancel
<1>4. CASE UNCHANGED vars
  BY <1>4 DEF IInv, TypeOK, Accounted, TripsAtThreshold, OpenIsTimed, vars
<1>. QED
  BY <1>1, <1>2, <1>3, <1>4, AdmitIInv, FailIInv DEF Next

(* The inductive invariant of the breaker. *)
THEOREM Invariance == Spec => []IInv
<1>. QED  BY InitIInv, NextIInv, PTL DEF Spec

(* The breaker's state is well typed; the counts stay within their limits. *)
THEOREM TypeCorrect == Spec => []TypeOK
<1>1. IInv => TypeOK
  BY DEF IInv
<1>. QED  BY Invariance, <1>1, PTL

(* The breaker is closed exactly as long as fewer than failure_threshold calls
   have failed since the last success. *)
THEOREM Trips == Spec => []TripsAtThreshold
<1>1. IInv => TripsAtThreshold
  BY DEF IInv
<1>. QED  BY Invariance, <1>1, PTL

(* An open breaker has an _opened_at: line 54 of _allow_request never holds. *)
THEOREM Timed == Spec => []OpenIsTimed
<1>1. IInv => OpenIsTimed
  BY DEF IInv
<1>. QED  BY Invariance, <1>1, PTL

(* half_open_max_calls bounds the probes beside the first, whatever calls end,
   fail or are cancelled meanwhile. *)
THEOREM Probes == Spec => []ProbesLimited
<1>1. IInv => ProbesLimited
  BY DEF IInv, TypeOK, Accounted, ProbesLimited
<1>. QED  BY Invariance, <1>1, PTL

(* A failure always opens a half open breaker again, since opening does not
   reset failure_count. *)
THEOREM Reopens == Spec => ProbeFailureReopens
<1>1. IInv /\ [Next]_vars =>
        [state = "half_open" /\ (\E c \in Callers : Fail(c)) => state' = "open"]_vars
  <2>. SUFFICES ASSUME IInv, state = "half_open", NEW c \in Callers, Fail(c)
                PROVE  state' = "open"
    OBVIOUS
  <2>1. failures \in 0..Threshold /\ ~(failures < Threshold)
    BY DEF IInv, TypeOK, Accounted, TripsAtThreshold
  <2>2. failures' >= Threshold
    BY <2>1 DEF Fail, Capped
  <2>. QED  BY <2>2 DEF Fail
<1>. QED  BY Invariance, <1>1, PTL DEF Spec, ProbeFailureReopens
=============================================================================
