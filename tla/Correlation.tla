---------------------------- MODULE Correlation ----------------------------
(***************************************************************************)
(* Message correlation (engines/orchestration/core/correlation.py):        *)
(* message subscriptions with their two indexes, matching, the buffer of   *)
(* messages nobody waits for, cleaning up after an instance, and the       *)
(* history rows from which reload_from_history rebuilds all of it.         *)
(*                                                                         *)
(* subscribe_message, unsubscribe_message and _buffer_message do not       *)
(* suspend.  They are operators on the record of what the engine keeps in  *)
(* memory, which the coroutines and the replay of the history share.  A    *)
(* coroutine suspends while an event is published and while a row is       *)
(* saved; the row itself is in the repository before that.  A coroutine    *)
(* that is cancelled there is left out.                                    *)
(***************************************************************************)
EXTENDS Integers, Sequences, Functions, Buffers

CONSTANTS Subs,        \* subscription ids, each used once (uuid4)
          Messages,    \* message ids
          Names,       \* message names
          Instances,   \* process instances
          Name,        \* the name of every subscription and message
          Keys,        \* their correlation keys, as a value
          Instance,    \* the instance of every subscription
          Ttl,         \* the messages that have a time to live
          MaxBuffer,   \* max_buffer_size
          MaxReloads   \* bound on the number of reloads

ASSUME CorrelationAssumption ==
  /\ Subs \cap Messages = {}
  /\ Name \in [Subs \cup Messages -> Names]
  /\ DOMAIN Keys = Subs \cup Messages
  /\ Instance \in [Subs -> Instances]
  /\ Ttl \subseteq Messages
  /\ MaxBuffer \in Nat \ {0}
  /\ MaxReloads \in Nat

VARIABLES mem,       \* what the engine keeps in memory
          rows,      \* the history, in the order of created_at
          tasks,     \* created tasks that will notify s of m, as <<s, m>>
          forget,    \* messages whose "deleted" row a created task will append
          stage,     \* correlate_message of every message
          todo,      \* the matches it has still to notify
          cleaning,  \* cleanup of an instance: ids still to unsubscribe
          reloads,   \* how often the history was reloaded
          notified,  \* history: <<s, m>> published as MESSAGE_CORRELATED
          gone,      \* history: messages evicted from the buffer or expired
          expired,   \* history: whether a message has expired
          doomed     \* history: subscriptions removed by the cleanup of their instance

vars == <<mem, rows, tasks, forget, stage, todo, cleaning, reloads, notified, gone, expired, doomed>>

Memory == [subs : SUBSET Subs,                          \* message_subscriptions
           byName : [Names -> SUBSET Subs],             \* message_name_index
           byInstance : [Instances -> SUBSET Subs],     \* instance_message_subs
           buffer : Seq(Messages)]                      \* buffered_messages
Row == [action : {"subscribed", "unsubscribed"}, id : Subs]
         \cup [action : {"buffered", "removed"}, id : Messages]

Empty == [subs |-> {}, byName |-> [n \in Names |-> {}],
          byInstance |-> [i \in Instances |-> {}], buffer |-> <<>>]

Init ==
  /\ mem = Empty /\ rows = <<>>
  /\ tasks = {} /\ forget = {}
  /\ stage = [m \in Messages |-> "new"]
  /\ todo = [m \in Messages |-> {}]
  /\ cleaning = [i \in Instances |-> {}]
  /\ reloads = 0
  /\ notified = {} /\ gone = {} /\ expired = FALSE /\ doomed = {}

-----------------------------------------------------------------------------
Matches(s, m) == Name[s] = Name[m] /\ Keys[s] = Keys[m]

(* _find_message_matches: by name through the index, then by keys. *)
FindMatches(c, m) == {s \in c.byName[Name[m]] : s \in c.subs /\ Keys[s] = Keys[m]}

(* _check_buffered_messages: the buffered messages a subscription takes. *)
Taken(c, s) == {m \in Range(c.buffer) : Matches(s, m)}

(* Mutant of AddSub: the buffer is read and not emptied. *)
AddSub_KeepsBuffer(c, s) ==
  [c EXCEPT !.subs = @ \cup {s},
            !.byName[Name[s]] = @ \cup {s},
            !.byInstance[Instance[s]] = @ \cup {s}]

(* subscribe_message; the tasks it creates are those of Taken. *)
AddSub(c, s) ==
  [c EXCEPT !.subs = @ \cup {s},
            !.byName[Name[s]] = @ \cup {s},
            !.byInstance[Instance[s]] = @ \cup {s},
            !.buffer = Without(@, Taken(c, s))]

(* unsubscribe_message *)
DropSub(c, s) ==
  IF s \notin c.subs THEN c
  ELSE [c EXCEPT !.subs = @ \ {s},
                 !.byName[Name[s]] = @ \ {s},
                 !.byInstance[Instance[s]] = @ \ {s}]

(* Mutant of Full: off by one. *)
Full_Late(c) == Len(c.buffer) > MaxBuffer

(* _buffer_message, and the message it evicts, if any. *)
Full(c) == Len(c.buffer) + 1 > MaxBuffer
AddMessage(c, m) ==
  LET b == Append(c.buffer, m)
  IN  [c EXCEPT !.buffer = IF Full(c) THEN Tail(b) ELSE b]
Evicted(c, m) == IF Full(c) THEN {Head(Append(c.buffer, m))} ELSE {}

DropMessage(c, m) == [c EXCEPT !.buffer = Without(@, {m})]

-----------------------------------------------------------------------------
(* subscribe_message_persisted.  Whoever waits is subscribed once. *)
Subscribe(s) ==
  /\ \A k \in DOMAIN rows : rows[k] # [action |-> "subscribed", id |-> s]
  /\ mem' = AddSub(mem, s)
  /\ tasks' = tasks \cup ({s} \X Taken(mem, s))
  /\ forget' = forget \cup Taken(mem, s)
  /\ rows' = Append(rows, [action |-> "subscribed", id |-> s])
  /\ UNCHANGED <<stage, todo, cleaning, reloads, notified, gone, expired, doomed>>

(* Mutant of Dropped: the row is left out. *)
Dropped_NoRow(s) == mem' = DropSub(mem, s) /\ UNCHANGED rows

(* unsubscribe_message_persisted: no row when there was nothing to remove. *)
Dropped(s) ==
  /\ mem' = DropSub(mem, s)
  /\ rows' = IF s \in mem.subs THEN Append(rows, [action |-> "unsubscribed", id |-> s]) ELSE rows

Unsubscribe(s) ==
  /\ s \in mem.subs
  /\ Dropped(s)
  /\ UNCHANGED <<tasks, forget, stage, todo, cleaning, reloads, notified, gone, expired, doomed>>

(* cleanup_instance_subscriptions_persisted: the ids are copied, then removed
   one by one, with a suspension after each. *)
CleanUp(i) ==
  /\ cleaning[i] = {}
  /\ mem.byInstance[i] # {}
  /\ cleaning' = [cleaning EXCEPT ![i] = mem.byInstance[i]]
  /\ UNCHANGED <<mem, rows, tasks, forget, stage, todo, reloads, notified, gone, expired, doomed>>

CleanUpNext(i) ==
  \E s \in cleaning[i] :
    /\ Dropped(s)
    /\ cleaning' = [cleaning EXCEPT ![i] = @ \ {s}]
    /\ doomed' = doomed \cup {s}
    /\ UNCHANGED <<tasks, forget, stage, todo, reloads, notified, gone, expired>>

-----------------------------------------------------------------------------
(* Mutant of Correlate: a message may be buffered although somebody waits. *)
Correlate_AlwaysBuffers(m) ==
  /\ stage[m] = "new"
  /\ mem' = AddMessage(mem, m)
  /\ gone' = gone \cup Evicted(mem, m)
  /\ rows' = Append(rows, [action |-> "buffered", id |-> m])
  /\ stage' = [stage EXCEPT ![m] = "sent"]
  /\ UNCHANGED <<notified, todo, tasks, forget, cleaning, reloads, expired, doomed>>

(* correlate_message, to its first suspension: in the publication for the first
   match, or in the save of the buffered message's row. *)
Correlate(m) ==
  /\ stage[m] = "new"
  /\ \/ \E s \in FindMatches(mem, m) :
          /\ notified' = notified \cup {<<s, m>>}
          /\ todo' = [todo EXCEPT ![m] = FindMatches(mem, m) \ {s}]
          /\ stage' = [stage EXCEPT ![m] = "notifying"]
          /\ UNCHANGED <<mem, rows, gone>>
     \/ /\ FindMatches(mem, m) = {}
        /\ mem' = AddMessage(mem, m)
        /\ gone' = gone \cup Evicted(mem, m)
        /\ rows' = Append(rows, [action |-> "buffered", id |-> m])
        /\ stage' = [stage EXCEPT ![m] = "sent"]
        /\ UNCHANGED <<notified, todo>>
  /\ UNCHANGED <<tasks, forget, cleaning, reloads, expired, doomed>>

(* Its next match that is still subscribed, or its end. *)
NotifyNext(m) ==
  /\ stage[m] = "notifying"
  /\ LET live == todo[m] \cap mem.subs
     IN  \/ \E s \in live :
              /\ notified' = notified \cup {<<s, m>>}
              /\ todo' = [todo EXCEPT ![m] = live \ {s}]
              /\ UNCHANGED stage
         \/ /\ live = {}
            /\ stage' = [stage EXCEPT ![m] = "sent"]
            /\ todo' = [todo EXCEPT ![m] = {}]
            /\ UNCHANGED notified
  /\ UNCHANGED <<mem, rows, tasks, forget, cleaning, reloads, gone, expired, doomed>>

(* Mutant of NotifyTask: a subscription that is gone is not notified. *)
NotifyTask_LiveOnly(s, m) ==
  /\ <<s, m>> \in tasks
  /\ tasks' = tasks \ {<<s, m>>}
  /\ notified' = IF s \in mem.subs THEN notified \cup {<<s, m>>} ELSE notified
  /\ UNCHANGED <<mem, rows, forget, stage, todo, cleaning, reloads, gone, expired, doomed>>

(* The two kinds of tasks that _check_buffered_messages creates. *)
NotifyTask(s, m) ==
  /\ <<s, m>> \in tasks
  /\ tasks' = tasks \ {<<s, m>>}
  /\ notified' = notified \cup {<<s, m>>}
  /\ UNCHANGED <<mem, rows, forget, stage, todo, cleaning, reloads, gone, expired, doomed>>

ForgetTask(m) ==
  /\ m \in forget
  /\ forget' = forget \ {m}
  /\ rows' = Append(rows, [action |-> "removed", id |-> m])
  /\ UNCHANGED <<mem, tasks, stage, todo, cleaning, reloads, notified, gone, expired, doomed>>

(* cleanup_expired_messages, at a moment when the messages of old have
   outlived their time to live; it appends no row. *)
CleanUpExpired(old) ==
  /\ old \cap Range(mem.buffer) # {}
  /\ mem' = [mem EXCEPT !.buffer = Without(@, old)]
  /\ gone' = gone \cup (old \cap Range(mem.buffer)) /\ expired' = TRUE
  /\ UNCHANGED <<rows, tasks, forget, stage, todo, cleaning, reloads, notified, doomed>>

-----------------------------------------------------------------------------
(* Mutant of Replayed: the buffer is not looked at for a replayed subscription. *)
Replayed_KeepsBuffer(acc, row) ==
  CASE row.action = "subscribed" -> [acc EXCEPT !.mem = AddSub_KeepsBuffer(@, row.id)]
    [] row.action = "unsubscribed" -> [acc EXCEPT !.mem = DropSub(@, row.id)]
    [] row.action = "buffered" ->
         [acc EXCEPT !.mem = AddMessage(@, row.id), !.gone = @ \cup Evicted(acc.mem, row.id)]
    [] row.action = "removed" -> [acc EXCEPT !.mem = DropMessage(@, row.id)]

(* reload_from_history does not suspend.  Replaying a subscription creates the
   tasks again for the messages it takes from the buffer. *)
Replayed(acc, row) ==
  CASE row.action = "subscribed" ->
         [acc EXCEPT !.mem = AddSub(@, row.id), !.tasks = @ \cup ({row.id} \X Taken(acc.mem, row.id))]
    [] row.action = "unsubscribed" -> [acc EXCEPT !.mem = DropSub(@, row.id)]
    [] row.action = "buffered" ->
         [acc EXCEPT !.mem = AddMessage(@, row.id), !.gone = @ \cup Evicted(acc.mem, row.id)]
    [] row.action = "removed" -> [acc EXCEPT !.mem = DropMessage(@, row.id)]

Replay(history) ==
  LET after[k \in 0..Len(history)] ==
        IF k = 0 THEN [mem |-> Empty, tasks |-> {}, gone |-> {}]
        ELSE Replayed(after[k - 1], history[k])
  IN  after[Len(history)]

Reload ==
  /\ reloads < MaxReloads
  /\ reloads' = reloads + 1
  /\ LET end == Replay(rows)
     IN  /\ mem' = end.mem
         /\ tasks' = tasks \cup end.tasks
         /\ forget' = forget \cup {t[2] : t \in end.tasks}
         /\ gone' = gone \cup end.gone
  /\ UNCHANGED <<rows, stage, todo, cleaning, notified, expired, doomed>>

Next ==
  \/ \E s \in Subs : Subscribe(s) \/ Unsubscribe(s)
  \/ \E i \in Instances : CleanUp(i) \/ CleanUpNext(i)
  \/ \E m \in Messages : Correlate(m) \/ NotifyNext(m) \/ ForgetTask(m)
  \/ \E s \in Subs, m \in Messages : NotifyTask(s, m)
  \/ \E old \in SUBSET Ttl : CleanUpExpired(old)
  \/ Reload

Spec == Init /\ [][Next]_vars

-----------------------------------------------------------------------------
(* The buffer never holds more than max_buffer_size messages, or one twice, and
   message_subscriptions agrees with its indexes by name and by instance, so
   that no match and no cleanup misses a subscription, also after a reload. *)
TypeOK ==
  /\ mem \in Memory
  /\ Len(mem.buffer) <= MaxBuffer /\ IsInjective(mem.buffer)
  /\ rows \in Seq(Row)
  /\ tasks \subseteq Subs \X Messages /\ forget \subseteq Messages
  /\ stage \in [Messages -> {"new", "notifying", "sent"}]
  /\ todo \in [Messages -> SUBSET Subs]
  /\ cleaning \in [Instances -> SUBSET Subs]
  /\ reloads \in 0..MaxReloads
  /\ notified \subseteq Subs \X Messages
  /\ gone \subseteq Messages /\ expired \in BOOLEAN /\ doomed \subseteq Subs
  /\ mem.byName = [n \in Names |-> {s \in mem.subs : Name[s] = n}]
  /\ mem.byInstance = [i \in Instances |-> {s \in mem.subs : Instance[s] = i}]

(* A message waits in the buffer only while nobody waits for it: correlating,
   subscribing and reloading never leave a message next to its subscription. *)
BufferUnmatched ==
  \A m \in Range(mem.buffer), s \in mem.subs : ~Matches(s, m)

(* No message gets lost: once correlate_message was called, the message is in
   the buffer, or somebody has been or is about to be notified of it, or it was
   evicted by the size limit or expired. *)
MessageAccounted ==
  \A m \in Messages :
    stage[m] # "new" =>
      \/ m \in Range(mem.buffer) \cup gone
      \/ \E s \in Subs : <<s, m>> \in tasks \cup notified

(* A buffered message is consumed by one subscription: no second one is ever
   notified of it, although a reload replays its consumption. *)
OneConsumer ==
  \A k \in DOMAIN rows :
    rows[k].action = "buffered" =>
      \A s, t \in Subs :
        {<<s, rows[k].id>>, <<t, rows[k].id>>} \subseteq tasks \cup notified => s = t

(* test_delete_instance_cleans_up_persisted_correlation_subscriptions: what the
   cleanup of an instance has removed never comes back, not even by a reload. *)
CleanedUp == doomed \cap mem.subs = {}

(* A reload restores the subscriptions and, unless a message has expired, the
   buffer, whatever tasks and coroutines it overtakes. *)
ReloadRestores ==
  [][reloads' # reloads =>
       /\ mem'.subs = mem.subs
       /\ ~expired => mem'.buffer = mem.buffer]_vars

(* Correlation implements Rendezvous: those who wait are the subscriptions, and
   heard is what has been published or will be by a task.  So tasks, rows and
   their order are invisible, and so is a reload at any moment, unless a message
   has expired.  A subscription is owed a message while correlate_message has it
   on its list and it is still subscribed. *)
Fits == {p \in Subs \X Messages : Matches(p[1], p[2])}
Left == {s \in Subs : [action |-> "subscribed", id |-> s] \in Range(rows)} \ mem.subs
Sent == {m \in Messages : stage[m] # "new"}
Owed == [m \in Messages |-> todo[m] \cap mem.subs]
Meeting == INSTANCE Rendezvous WITH
  Mortal <- Ttl, Room <- MaxBuffer, waiting <- mem.subs, left <- Left, kept <- mem.buffer,
  sent <- Sent, owed <- Owed, heard <- tasks \cup notified, faded <- expired
RendezvousSpec == Meeting!Spec
=============================================================================
