------------------------------ MODULE MCEngine ------------------------------
(* Process models for Engine: each a few nodes around one construct. *)
EXTENDS Engine, TLC

To(n) == [to |-> n, guarded |-> FALSE]
If(n) == [to |-> n, guarded |-> TRUE]

(* A task, and then a wait for a message. *)
Waiting == [typed |-> FALSE, start |-> "s",
  kind  |-> [s |-> "event", t |-> "task", r |-> "receive"],
  flows |-> [s |-> <<To("t")>>, t |-> <<To("r")>>, r |-> <<>>]]

(* Two tasks in a circle. *)
Circle == [typed |-> FALSE, start |-> "a",
  kind  |-> [a |-> "task", b |-> "event"],
  flows |-> [a |-> <<To("b")>>, b |-> <<To("a")>>]]

(* A choice, whose second flow has no condition or leads nowhere. *)
Choice(typed, other) == [typed |-> typed, start |-> "x",
  kind  |-> [x |-> "exclusive", a |-> "event"],
  flows |-> [x |-> <<If("a"), other>>, a |-> <<>>]]

(* A parallel gateway with two branches that end. *)
Fork(typed) == [typed |-> typed, start |-> "g",
  kind  |-> [g |-> "parallel", a |-> "event", b |-> "event"],
  flows |-> [g |-> <<To("a"), To("b")>>, a |-> <<>>, b |-> <<>>]]

(* A gateway whose branches meet again. *)
Diamond(split, join) == [typed |-> TRUE, start |-> "g",
  kind  |-> [g |-> split, a |-> "event", j |-> join],
  flows |-> [g |-> <<If("a"), If("j")>>, a |-> <<To("j")>>, j |-> <<>>]]

(* Two gateways that lead to each other. *)
Ring == [typed |-> TRUE, start |-> "x",
  kind  |-> [x |-> "exclusive", y |-> "exclusive"],
  flows |-> [x |-> <<To("y")>>, y |-> <<To("x")>>]]

Empty == [typed |-> FALSE, start |-> NoNode, kind |-> <<>>, flows |-> <<>>]

AllModels ==
  {Waiting, Circle, Choice(TRUE, To("a")), Choice(FALSE, If("a")), Choice(FALSE, To("missing")),
   Fork(FALSE), Fork(TRUE), Diamond("inclusive", "inclusive"), Diamond("inclusive", "complex"),
   Diamond("exclusive", "complex"), Ring, Empty}
ForkOnly == {Fork(FALSE)}
WaitingOnly == {Waiting}
=============================================================================
