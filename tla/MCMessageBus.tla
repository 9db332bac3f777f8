---------------------------- MODULE MCMessageBus ----------------------------
(* Small instances of MessageBus are given entirely by the configurations. *)
EXTENDS MessageBus
=============================================================================
