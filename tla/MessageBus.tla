----------------------------- MODULE MessageBus -----------------------------
(***************************************************************************)
(* The queue based message bus (communication/buses/                       *)
(* durable_message_bus.py), seen by one recipient; the recipients share    *)
(* nothing.  Senders publish one message after the other and wait while    *)
(* the queue is full.  Each subscription starts a consumer task;           *)
(* unsubscribe cancels it, and the queue stays.                            *)
(*                                                                         *)
(* unsubscribe forgets the task and cancels it in one step, so a live task *)
(* has been cancelled exactly when it is not the registered one.  A        *)
(* cancelled handler may take its time to clean up, and lets the           *)
(* cancellation through; meanwhile the recipient may subscribe again.  A   *)
(* handler may also end with a CancelledError that unsubscribe did not     *)
(* cause, and a suspended publish() may be cancelled by its caller.        *)
(***************************************************************************)
EXTENDS Naturals, Sequences, FiniteSets, Functions

CONSTANTS Senders,    \* coroutines that call publish()
          MaxMsgs,    \* bound: messages of one sender
          MaxSize,    \* maxsize of the queue; 0 is unlimited
          MaxTasks    \* bound: consumer tasks ever created

ASSUME BusAssumption ==
  /\ MaxMsgs \in Nat
  /\ MaxSize \in Nat
  /\ MaxTasks \in Nat

VARIABLES created,    \* recipient in _queues
          queue,      \* _queues[recipient]
          sent,       \* per sender, how many publish() calls it has made
          putting,    \* messages whose publish() is suspended in q.put()
          made,       \* consumer tasks created so far; the tasks are 1..made
          consumer,   \* _consumer_tasks[recipient], 0 when there is none
          at,         \* where a task is: in q.get(), in the handler, ended
          held,       \* the messages of the handlers that run, by task
          last,       \* history: per sender, the last message handed over
          refused,    \* history: messages published when there was no queue
          handled,    \* history: messages whose handler has returned or raised
          cut,        \* history: messages whose handler was cancelled
          withdrawn,  \* history: messages whose suspended publish() was cancelled
          killed      \* history: the tasks their own handler ended

vars == <<created, queue, sent, putting, made, consumer, at, held, last,
          refused, handled, cut, withdrawn, killed>>

Messages == Senders \X (1..MaxMsgs)
Tasks == 1..MaxTasks
None == <<>>

TypeOK ==
  /\ created \in BOOLEAN
  /\ queue \in Seq(Messages)
  /\ sent \in [Senders -> 0..MaxMsgs]
  /\ putting \subseteq Messages
  /\ made \in 0..MaxTasks
  /\ consumer \in 0..made
  /\ at \in [Tasks -> {"getting", "handling", "ended"}]
  /\ held \in [Tasks -> Messages \cup {None}]
  /\ last \in [Senders -> 0..MaxMsgs]
  /\ refused \subseteq Messages
  /\ handled \subseteq Messages
  /\ cut \subseteq Messages
  /\ withdrawn \subseteq Messages
  /\ killed \subseteq Tasks

Init ==
  /\ created = FALSE
  /\ queue = <<>>
  /\ sent = [s \in Senders |-> 0]
  /\ putting = {}
  /\ made = 0 /\ consumer = 0
  /\ at = [t \in Tasks |-> "ended"]
  /\ held = [t \in Tasks |-> None]
  /\ last = [s \in Senders |-> 0]
  /\ refused = {} /\ handled = {} /\ cut = {}
  /\ withdrawn = {} /\ killed = {}

Full == MaxSize > 0 /\ Len(queue) >= MaxSize

Ready(s) == sent[s] < MaxMsgs /\ <<s, sent[s]>> \notin putting

-----------------------------------------------------------------------------
(* Mutant of Publish: the put is not awaited, and the sender goes on. *)
Publish_NotAwaited(s) ==
  LET m == <<s, sent[s] + 1>>
  IN  /\ sent[s] < MaxMsgs
      /\ sent' = [sent EXCEPT ![s] = @ + 1]
      /\ \/ /\ ~created
            /\ refused' = refused \cup {m}
            /\ UNCHANGED <<queue, putting>>
         \/ /\ created
            /\ putting' = putting \cup {m}
            /\ UNCHANGED <<queue, refused>>
      /\ UNCHANGED <<created, made, consumer, at, held, last, handled, cut, withdrawn, killed>>

(* publish(): without a queue the message is dropped; into a full queue the
   sender waits. *)
Publish(s) ==
  LET m == <<s, sent[s] + 1>>
  IN  /\ Ready(s)
      /\ sent' = [sent EXCEPT ![s] = @ + 1]
      /\ \/ /\ ~created
            /\ refused' = refused \cup {m}
            /\ UNCHANGED <<queue, putting>>
         \/ /\ created /\ Full
            /\ putting' = putting \cup {m}
            /\ UNCHANGED <<queue, refused>>
         \/ /\ created /\ ~Full
            /\ queue' = Append(queue, m)
            /\ UNCHANGED <<putting, refused>>
      /\ UNCHANGED <<created, made, consumer, at, held, last, handled, cut, withdrawn, killed>>

(* q.put() of a suspended publish() goes on (external: asyncio.Queue).  A
   sender that finds the queue full again goes to the end of the waiting line,
   so nothing is said about which one is first. *)
Put(m) ==
  /\ m \in putting /\ ~Full
  /\ putting' = putting \ {m}
  /\ queue' = Append(queue, m)
  /\ UNCHANGED <<created, sent, made, consumer, at, held, last, refused, handled, cut, withdrawn, killed>>

(* The caller of a suspended publish() is cancelled: the message is never put. *)
PublishCancelled(m) ==
  /\ m \in putting
  /\ putting' = putting \ {m}
  /\ withdrawn' = withdrawn \cup {m}
  /\ UNCHANGED <<created, queue, sent, made, consumer, at, held, last, refused, handled, cut, killed>>

(* Mutant of Subscribe: every subscription starts with a new queue. *)
Subscribe_NewQueue ==
  /\ consumer = 0 /\ made < MaxTasks
  /\ created' = TRUE
  /\ queue' = <<>>
  /\ made' = made + 1 /\ consumer' = made + 1
  /\ at' = [at EXCEPT ![made + 1] = "getting"]
  /\ UNCHANGED <<sent, putting, held, last, refused, handled, cut, withdrawn, killed>>

(* subscribe(): the queue is made once; a second subscription beside a
   registered one has no effect. *)
Subscribe ==
  /\ consumer = 0 /\ made < MaxTasks
  /\ created' = TRUE
  /\ made' = made + 1 /\ consumer' = made + 1
  /\ at' = [at EXCEPT ![made + 1] = "getting"]
  /\ UNCHANGED <<queue, sent, putting, held, last, refused, handled, cut, withdrawn, killed>>

(* unsubscribe(), up to its "await task". *)
Unsubscribe ==
  /\ consumer # 0
  /\ consumer' = 0
  /\ UNCHANGED <<created, queue, sent, putting, made, at, held, last, refused, handled, cut, withdrawn, killed>>

(* _consume(): q.get() returns a message, and the handler is called. *)
Take(t) ==
  /\ t = consumer /\ at[t] = "getting" /\ queue # <<>>
  /\ queue' = Tail(queue)
  /\ at' = [at EXCEPT ![t] = "handling"]
  /\ held' = [held EXCEPT ![t] = Head(queue)]
  /\ last' = [last EXCEPT ![Head(queue)[1]] = Head(queue)[2]]
  /\ UNCHANGED <<created, sent, putting, made, consumer, refused, handled, cut, withdrawn, killed>>

(* Mutant of Handle: an exception of the handler ends the consumer. *)
Handle_Raises(t) ==
  /\ t = consumer /\ at[t] = "handling"
  /\ at' = [at EXCEPT ![t] = "ended"]
  /\ handled' = handled \cup {held[t]}
  /\ held' = [held EXCEPT ![t] = None]
  /\ UNCHANGED <<created, queue, sent, putting, made, consumer, last, refused, cut, withdrawn, killed>>

(* The handler returns, or raises an Exception, which is logged. *)
Handle(t) ==
  /\ t = consumer /\ at[t] = "handling"
  /\ at' = [at EXCEPT ![t] = "getting"]
  /\ handled' = handled \cup {held[t]}
  /\ held' = [held EXCEPT ![t] = None]
  /\ UNCHANGED <<created, queue, sent, putting, made, consumer, last, refused, cut, withdrawn, killed>>

(* The handler ends with a CancelledError of its own: it passes the except of
   line 50 and ends the loop at line 52.  The task stays registered, so a
   subscription has no effect until somebody unsubscribes. *)
HandlerCancelled(t) ==
  /\ t = consumer /\ at[t] = "handling"
  /\ at' = [at EXCEPT ![t] = "ended"]
  /\ cut' = cut \cup {held[t]}
  /\ held' = [held EXCEPT ![t] = None]
  /\ killed' = killed \cup {t}
  /\ UNCHANGED <<created, queue, sent, putting, made, consumer, last, refused, handled, withdrawn>>

(* A cancelled task ends: at once in q.get(), and when the handler has given
   way otherwise.  unsubscribe() returns. *)
End(t) ==
  /\ t # consumer /\ at[t] # "ended"
  /\ at' = [at EXCEPT ![t] = "ended"]
  /\ cut' = IF at[t] = "handling" THEN cut \cup {held[t]} ELSE cut
  /\ held' = [held EXCEPT ![t] = None]
  /\ UNCHANGED <<created, queue, sent, putting, made, consumer, last, refused, handled, withdrawn, killed>>

Next ==
  \/ \E s \in Senders : Publish(s)
  \/ \E m \in Messages : Put(m) \/ PublishCancelled(m)
  \/ Subscribe \/ Unsubscribe
  \/ \E t \in Tasks : Take(t) \/ Handle(t) \/ HandlerCancelled(t) \/ End(t)

Spec == Init /\ [][Next]_vars

(* Handlers end, one way or another, and the event loop runs every task that is
   ready.  Nothing is assumed of subscribers and senders. *)
FairSpec ==
  /\ Spec
  /\ \A m \in Messages : WF_vars(Put(m))
  /\ \A t \in Tasks :
       WF_vars(Take(t)) /\ WF_vars(Handle(t) \/ HandlerCancelled(t)) /\ WF_vars(End(t))

-----------------------------------------------------------------------------
(* Where a message that has been published can be. *)
Queued == Range(queue)
Held == {held[t] : t \in Tasks} \ {None}
Places == [refused |-> refused, putting |-> putting, queued |-> Queued,
           held |-> Held, handled |-> handled, cut |-> cut,
           withdrawn |-> withdrawn]

(* However subscriptions come and go, senders block and handlers are cancelled,
   a published message is in exactly one place: refused by publish(), waiting
   to be put, called off by its caller while it waited, waiting in the queue,
   in one handler, handled, or in a handler that was cancelled.  Nothing is
   lost in between and nothing is handed out twice. *)
Accounted ==
  /\ \A m \in Messages :
       (m[2] <= sent[m[1]]) <=> (\E p \in DOMAIN Places : m \in Places[p])
  /\ \A p, q \in DOMAIN Places : p # q => Places[p] \cap Places[q] = {}
  /\ \A i, j \in 1..Len(queue) : queue[i] = queue[j] => i = j
  /\ \A t, u \in Tasks : held[t] = held[u] /\ held[t] # None => t = u

(* The bus implements a mailbox whose pending messages are those in the queue
   and whose offered ones are those of suspended senders: once the recipient
   has subscribed for the first time no message is refused, only a suspended
   publication can be called off, and the messages of a sender are handed to
   the handlers in the order of publication, across unsubscriptions, ended
   consumers and senders that wait for a full queue. *)
Box == INSTANCE Mailbox WITH opened <- created, offered <- putting, pending <- Queued
MailboxSpec == Box!Spec

(* As long as the recipient stays subscribed, every accepted message reaches
   its handler, also those of senders that have to wait and whatever happened
   to earlier consumers.  Only a handler that ends with a CancelledError of its
   own stops the registered consumer; an exception of a handler never does. *)
Delivered ==
  \A m \in Messages :
    (m \in Queued \cup putting) ~>
      (m \notin Queued \cup putting \/ consumer = 0 \/ consumer \in killed)
=============================================================================
