----------------------------- MODULE Persister -----------------------------
(***************************************************************************)
(* The persistence worker (internal/whatsapp/persist.go): the queue        *)
(* between whatsmeow's handler and the worker, the handlers of message,    *)
(* receipt and history events statement by statement, and its shutdown.    *)
(*                                                                         *)
(* The database has one connection.  A live handler takes it for each      *)
(* statement; a history transaction keeps it, with what it has written so  *)
(* far in tx, until it commits.                                            *)
(***************************************************************************)
EXTENDS MessageStore, Sequences

CONSTANTS
  Deliveries,     \* the events whatsmeow can deliver
  NoEvent, NoTx,  \* no event in hand; no transaction open
  HistoryUnread,  \* the largest unread count of a history batch, per chat
  InboxCap,       \* capacity of Persister.inbox (4096 in the code)
  MaxEvents,      \* bound: events delivered, redeliveries included
  MaxFaults,      \* bound: statements that fail, crashes of the process
  MaxReads,       \* bound: calls of message.read
  MaxCloses       \* bound: calls of Close, 0 or 1 (closeOnce)

\* A receipt with kind own_read is read-self or comes from this account: it also clears
\* the chat's counter.  unread and ts are meant for history batches alone.
Events ==
  [kind : {"message", "revoke", "edit", "delivered", "read", "own_read", "history"},
   chat : Chats, ids : SUBSET Messages, unread : Nat, ts : Nat]

ASSUME DeliveriesAssumption ==
  /\ Deliveries \subseteq Events /\ NoEvent \notin Events
  /\ NoTx \notin Stores
  /\ \A e \in Deliveries :
       /\ e.kind = "message" => \E m \in Messages : e.ids = {m} /\ e.chat = ChatOf[m]
       /\ e.kind = "history" => \A m \in e.ids : e.chat = ChatOf[m]
  /\ HistoryUnread \in [Chats -> Nat]
  /\ \A e \in Deliveries : e.kind = "history" => e.unread <= HistoryUnread[e.chat]
ASSUME LimitsAreNatural ==
  /\ InboxCap \in Nat \ {0} /\ MaxEvents \in Nat /\ MaxFaults \in Nat /\ MaxReads \in Nat
  /\ MaxCloses \in {0, 1}

VARIABLES
  db,           \* what is committed
  tx,           \* what the open transaction sees, NoTx without one
  inbox,        \* Persister.inbox
  worker, job,  \* what the worker does next, and the event in its hands
  todo,         \* messages of a history batch still to be stored
  done,         \* p.done is closed
  handled,      \* messages whose handler call returned
  accepted,     \* those of them that were queued before Close
  announced,    \* messages published as message.received
  lost,         \* messages whose event a fault took from the queue or from the worker
  torn,         \* messages whose handler was cut off between their row and the chat's
  sent,         \* own messages on the network, from message.send or another device
  budget        \* what is left of the bounds

\* Values of worker besides "idle" and "ended", by the kind of event in its hands.
MessageSteps == {"chat", "insert", "last", "count", "publish"}
OtherSteps == {"revoke", "edit", "status", "clear"}
HistorySteps == {"begin", "replay", "stuck"}

queueVars == <<inbox, done, handled, accepted>>
workVars == <<worker, job, todo, announced, lost, torn>>
persisterVars == <<db, tx, queueVars, workVars, sent, budget>>

PersisterInit ==
  /\ db = EmptyStore /\ tx = NoTx
  /\ inbox = <<>> /\ done = FALSE /\ handled = {} /\ accepted = {}
  /\ worker = "idle" /\ job = NoEvent /\ todo = {}
  /\ announced = {} /\ lost = {} /\ torn = {} /\ sent = {}
  /\ budget = [events |-> MaxEvents, faults |-> MaxFaults, reads |-> MaxReads,
               closes |-> MaxCloses]

ConnectionFree == tx = NoTx

-----------------------------------------------------------------------------
(* The queue                                                               *)

\* handleEvent: the select queues the event if there is room; once Close ran it can also
\* drop it.  A handler that finds the queue full waits.
handleEvent(e) ==
  /\ budget.events > 0
  /\ \/ /\ Len(inbox) < InboxCap
        /\ inbox' = Append(inbox, e)
        /\ accepted' = IF done \/ e.kind # "message" THEN accepted ELSE accepted \cup e.ids
     \/ done /\ UNCHANGED <<inbox, accepted>>
  /\ handled' = IF e.kind = "message" THEN handled \cup e.ids ELSE handled
  /\ sent' = sent \cup (e.ids \ Incoming)
  /\ budget' = [budget EXCEPT !.events = @ - 1]
  /\ UNCHANGED <<db, tx, done, workVars>>

Close ==
  /\ budget.closes > 0
  /\ done' = TRUE
  /\ budget' = [budget EXCEPT !.closes = @ - 1]
  /\ UNCHANGED <<db, tx, inbox, handled, accepted, workVars, sent>>

MessagesOf(e) == IF e # NoEvent /\ e.kind = "message" THEN e.ids ELSE {}

FirstStep ==
  [message |-> "chat", revoke |-> "revoke", edit |-> "edit", delivered |-> "status",
   read |-> "status", own_read |-> "status", history |-> "begin"]

\* Wrong variant: there is no drain, and Close waits for an empty queue.
Take_NoDrain ==
  /\ worker = "idle" /\ inbox # <<>> /\ ~done
  /\ job' = Head(inbox) /\ inbox' = Tail(inbox)
  /\ worker' = FirstStep[Head(inbox).kind]
  /\ UNCHANGED <<db, tx, done, handled, accepted, todo, announced, lost, torn, sent, budget>>

\* run and drain: the next event, before Close or after it.
Take ==
  /\ worker = "idle" /\ inbox # <<>>
  /\ job' = Head(inbox) /\ inbox' = Tail(inbox)
  /\ worker' = FirstStep[Head(inbox).kind]
  /\ UNCHANGED <<db, tx, done, handled, accepted, todo, announced, lost, torn, sent, budget>>

\* Wrong variant: the worker returns on done without draining the queue.
EndWorker_NoDrain ==
  /\ worker = "idle" /\ done
  /\ worker' = "ended"
  /\ UNCHANGED <<db, tx, queueVars, job, todo, announced, lost, torn, sent, budget>>

\* drain found the queue empty, for a moment, and Close's wait is over.
EndWorker ==
  /\ worker = "idle" /\ done /\ inbox = <<>>
  /\ worker' = "ended"
  /\ UNCHANGED <<db, tx, queueVars, job, todo, announced, lost, torn, sent, budget>>

-----------------------------------------------------------------------------
(* Live events, one statement at a time                                    *)

\* The worker's statement s, after which it goes on at `next`.
Statement(at, s, next) ==
  /\ worker = at /\ ConnectionFree
  /\ db' = s
  /\ worker' = next
  /\ job' = IF next = "idle" THEN NoEvent ELSE job
  /\ UNCHANGED <<tx, queueVars, todo, announced, lost, torn, sent, budget>>

StoreChat == Statement("chat", UpsertChat(db, job.chat), "insert")

\* Wrong variant: what InsertMessage says about a duplicate is not looked at.
StoreMessage_Duplicates(m) ==
  /\ worker = "insert" /\ job.ids = {m}
  /\ Statement("insert", InsertMessage(db, m), "last")

\* A message that is already stored changes nothing else.
StoreMessage(m) ==
  /\ worker = "insert" /\ job.ids = {m}
  /\ Statement("insert", InsertMessage(db, m), IF Exists(db, m) THEN "idle" ELSE "last")

StoreLast(m) ==
  /\ worker = "last" /\ job.ids = {m}
  /\ Statement("last", UpdateChatLastMessage(db, m), IF m \in Incoming THEN "count" ELSE "publish")

CountUnread == Statement("count", IncrementUnread(db, job.chat), "publish")

\* message.received and chat.updated; the latter reads the row for its payload.
PublishMessage ==
  /\ worker = "publish"
  /\ announced' = announced \cup job.ids
  /\ worker' = "idle" /\ job' = NoEvent
  /\ UNCHANGED <<db, tx, queueVars, todo, lost, torn, sent, budget>>

RevokeMessage == Statement("revoke", SetMessageDeleted(db, job.ids), "idle")
EditMessage == Statement("edit", SetMessageEdited(db, job.ids), "idle")

StoreReceipt ==
  Statement("status", SetMessagesStatus(db, job.ids, IF job.kind = "delivered" THEN "delivered" ELSE "read"),
            IF job.kind = "own_read" THEN "clear" ELSE "idle")

ClearUnread == Statement("clear", MarkChatRead(db, job.chat), "idle")

LiveStep ==
  \/ StoreChat \/ CountUnread \/ PublishMessage
  \/ \E m \in Messages : StoreMessage(m) \/ StoreLast(m)
  \/ RevokeMessage \/ EditMessage \/ StoreReceipt \/ ClearUnread

-----------------------------------------------------------------------------
(* History: one conversation, in one transaction                           *)

\* The transaction takes the connection.  A name is looked up in whatsmeow's store, which
\* reads through the same pool: what the store's caches do not hold it asks the database
\* for, and waits for the connection that this very transaction holds.
BeginConversation ==
  /\ worker = "begin" /\ ConnectionFree
  /\ tx' = UpsertChat(db, job.chat)
  /\ todo' = job.ids
  /\ worker' \in {"replay", "stuck"}
  /\ UNCHANGED <<db, queueVars, job, announced, lost, torn, sent, budget>>

\* persistMessageWithRepo inside the transaction, for a message, without events.
Replayed(s, m) ==
  IF Exists(s, m) THEN s
  ELSE LET stored == UpdateChatLastMessage(InsertMessage(s, m), m)
       IN  IF m \in Incoming THEN IncrementUnread(stored, ChatOf[m]) ELSE stored

\* Wrong variant: history publishes its messages as they are replayed.
ReplayMessage_Publishes(m) ==
  /\ worker = "replay" /\ m \in todo
  /\ todo' = todo \ {m}
  /\ tx' = Replayed(tx, m)
  /\ announced' = announced \cup {m}
  /\ UNCHANGED <<db, queueVars, worker, job, lost, torn, sent, budget>>

\* An item of the batch is a message, or edits or revokes one as a live event does.  What
\* cannot be parsed is skipped, and so is every other item that is not a message.
ReplayMessage(m) ==
  /\ worker = "replay" /\ m \in todo
  /\ todo' = todo \ {m}
  /\ \/ tx' \in {tx, Replayed(tx, m)}
     \/ \E x \in Messages : tx' \in {SetMessageEdited(tx, {x}), SetMessageDeleted(tx, {x})}
  /\ UNCHANGED <<db, queueVars, worker, job, announced, lost, torn, sent, budget>>

\* The lookup of a message's chat, as in BeginConversation.
LookupInTransaction ==
  /\ worker = "replay" /\ todo # {}
  /\ worker' = "stuck"
  /\ UNCHANGED <<db, tx, queueVars, job, todo, announced, lost, torn, sent, budget>>

CommitConversation ==
  /\ worker = "replay" /\ todo = {}
  /\ db' = SetUnread(SetChatLastTimestamp(tx, job.chat, job.ts), job.chat, job.unread)
  /\ tx' = NoTx
  /\ worker' = "idle" /\ job' = NoEvent
  /\ UNCHANGED <<queueVars, todo, announced, lost, torn, sent, budget>>

HistoryStep ==
  \/ BeginConversation
  \/ \E m \in Messages : ReplayMessage(m)
  \/ LookupInTransaction
  \/ CommitConversation

-----------------------------------------------------------------------------
(* Failure of a statement: the handler returns, a transaction rolls back   *)

TornByWorker == IF worker = "last" THEN job.ids ELSE {}

FailStatement ==
  /\ budget.faults > 0
  /\ worker \in (MessageSteps \cup OtherSteps \cup HistorySteps) \ {"publish", "stuck"}
  /\ tx' = NoTx /\ todo' = {}
  /\ lost' = lost \cup MessagesOf(job)
  /\ torn' = torn \cup TornByWorker
  /\ worker' = "idle" /\ job' = NoEvent
  /\ budget' = [budget EXCEPT !.faults = @ - 1]
  /\ UNCHANGED <<db, queueVars, announced, sent>>

=============================================================================
