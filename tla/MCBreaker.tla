----------------------------- MODULE MCBreaker -----------------------------
(* Small instances of Breaker are given entirely by the configurations. *)
EXTENDS Breaker
=============================================================================
