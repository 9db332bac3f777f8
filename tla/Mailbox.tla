------------------------------ MODULE Mailbox ------------------------------
(***************************************************************************)
(* What a queue based message bus promises one recipient: once its mailbox *)
(* is open no message is refused, and what a sender has published reaches  *)
(* the recipient's handler at most once and in the order of publication.   *)
(* A sender may have to wait until its message is accepted; until then the *)
(* message can be called off, and only until then.  How long a message     *)
(* waits, and in which queue, is left open.                                *)
(***************************************************************************)
EXTENDS Naturals

CONSTANTS Senders,
          MaxMsgs     \* bound: messages of one sender

VARIABLES opened,     \* the recipient has a mailbox
          sent,       \* per sender, how many messages it has published
          offered,    \* messages whose senders wait
          pending,    \* messages accepted and not yet handed over
          last        \* per sender, its last message that was handed over

vars == <<opened, sent, offered, pending, last>>

(* The n-th message of a sender. *)
Messages == Senders \X (1..MaxMsgs)

Init ==
  /\ opened = FALSE
  /\ sent = [s \in Senders |-> 0]
  /\ offered = {}
  /\ pending = {}
  /\ last = [s \in Senders |-> 0]

Open ==
  /\ ~opened
  /\ opened' = TRUE
  /\ UNCHANGED <<sent, offered, pending, last>>

(* A message to a closed mailbox is refused; the others are accepted at once or
   have to wait. *)
Send(s) ==
  LET m == <<s, sent[s] + 1>>
  IN  /\ sent[s] < MaxMsgs
      /\ sent' = [sent EXCEPT ![s] = @ + 1]
      /\ \/ ~opened /\ UNCHANGED <<offered, pending>>
         \/ opened /\ pending' = pending \cup {m} /\ UNCHANGED offered
         \/ opened /\ offered' = offered \cup {m} /\ UNCHANGED pending
      /\ UNCHANGED <<opened, last>>

Accept(m) ==
  /\ m \in offered
  /\ offered' = offered \ {m}
  /\ pending' = pending \cup {m}
  /\ UNCHANGED <<opened, sent, last>>

CallOff(m) ==
  /\ m \in offered
  /\ offered' = offered \ {m}
  /\ UNCHANGED <<opened, sent, pending, last>>

Receive(m) ==
  /\ m \in pending
  /\ \A n \in pending \cup offered : n[1] = m[1] => m[2] <= n[2]
  /\ pending' = pending \ {m}
  /\ last' = [last EXCEPT ![m[1]] = m[2]]
  /\ UNCHANGED <<opened, sent, offered>>

Next ==
  \/ Open
  \/ \E s \in Senders : Send(s)
  \/ \E m \in Messages : Accept(m) \/ CallOff(m) \/ Receive(m)

Spec == Init /\ [][Next]_vars
=============================================================================
