----------------------------- MODULE Rendezvous -----------------------------
(***************************************************************************)
(* What message correlation promises to those who wait and to those who    *)
(* send.  A message is heard by somebody who waits for it when it is sent, *)
(* and by the others who do, as long as they stay.  A message that nobody  *)
(* waits for is kept, in the order of arrival, until the first who joins   *)
(* and whom it fits hears it, or newer messages need the room, or it fades *)
(* away.  Whoever has left does not come back.                             *)
(*                                                                         *)
(* There is no history here, and nothing is reloaded.  Only once a message *)
(* has faded may messages that were kept come back; whoever hears one of   *)
(* them is then the only one who ever does.                                *)
(***************************************************************************)
EXTENDS Integers, Sequences, Functions, Buffers

CONSTANTS Subs,       \* those who may wait
          Messages,
          Fits,       \* <<s, m>>: s waits for messages like m
          Mortal,     \* messages that may fade
          Room        \* how many messages are kept

VARIABLES waiting,    \* those who wait
          left,       \* those who have left
          kept,       \* the messages nobody waits for, oldest first
          sent,       \* messages that have been sent
          owed,       \* per message, those who are still to hear it
          heard,      \* <<s, m>>: s has heard m, or certainly will
          faded       \* whether a message has faded

vars == <<waiting, left, kept, sent, owed, heard, faded>>

Init ==
  /\ waiting = {} /\ left = {} /\ kept = <<>> /\ sent = {}
  /\ owed = [m \in Messages |-> {}]
  /\ heard = {} /\ faded = FALSE

Join(s) ==
  /\ s \notin waiting \cup left
  /\ waiting' = waiting \cup {s}
  /\ LET mine == {m \in Range(kept) : <<s, m>> \in Fits}
     IN  kept' = Without(kept, mine) /\ heard' = heard \cup ({s} \X mine)
  /\ UNCHANGED <<left, sent, owed, faded>>

Leave(s) ==
  /\ s \in waiting
  /\ waiting' = waiting \ {s} /\ left' = left \cup {s}
  /\ owed' = [m \in Messages |-> owed[m] \ {s}]
  /\ UNCHANGED <<kept, sent, heard, faded>>

Send(m) ==
  /\ m \notin sent /\ sent' = sent \cup {m}
  /\ LET all == {s \in waiting : <<s, m>> \in Fits}
         longer == Append(kept, m)
     IN  \/ \E s \in all :
              /\ heard' = heard \cup {<<s, m>>}
              /\ owed' = [owed EXCEPT ![m] = all \ {s}]
              /\ UNCHANGED kept
         \/ /\ all = {}
            /\ kept' = IF Len(longer) > Room THEN Tail(longer) ELSE longer
            /\ UNCHANGED <<heard, owed>>
  /\ UNCHANGED <<waiting, left, faded>>

Pass(m) ==
  /\ \E s \in owed[m] :
       heard' = heard \cup {<<s, m>>} /\ owed' = [owed EXCEPT ![m] = @ \ {s}]
  /\ UNCHANGED <<waiting, left, kept, sent, faded>>

Fade(old) ==
  /\ kept' = Without(kept, old) /\ faded' = TRUE
  /\ UNCHANGED <<waiting, left, sent, owed, heard>>

(* Messages that were kept come back; nobody who waits has been waiting for one
   of them. *)
Return ==
  /\ faded
  /\ kept' \in Seq(sent) /\ Len(kept') <= Room /\ IsInjective(kept')
  /\ \A s \in waiting, m \in Range(kept') : <<s, m>> \notin Fits
  /\ heard \subseteq heard'
  /\ \A s \in Subs, m \in Messages :
       <<s, m>> \in heard' \ heard =>
         /\ m \in sent /\ <<s, m>> \in Fits
         /\ \A t \in Subs : <<t, m>> \in heard' => s = t
  /\ UNCHANGED <<waiting, left, sent, owed, faded>>

Next ==
  \/ \E s \in Subs : Join(s) \/ Leave(s)
  \/ \E m \in Messages : Send(m) \/ Pass(m)
  \/ \E old \in SUBSET Mortal : Fade(old)
  \/ Return

Spec == Init /\ [][Next]_vars
=============================================================================
