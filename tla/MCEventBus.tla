----------------------------- MODULE MCEventBus -----------------------------
(* Two events of different types; s1 has the higher priority and a filter that
   refuses e2. *)
EXTENDS EventBus, TLC

CONSTANTS e1, e2, s1, s2, a, b

TypeOfEvent == (e1 :> a) @@ (e2 :> b)
PriorityOf == (s1 :> 5) @@ (s2 :> 0)
AcceptsOf == {<<s1, e1>>, <<s2, e1>>, <<s2, e2>>}
=============================================================================
