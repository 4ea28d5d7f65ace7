----------------------------- MODULE Messaging -----------------------------
(***************************************************************************)
(* The persistence worker beside the RPC methods that write to the same    *)
(* tables (internal/whatsapp/methods.go), crashes, and what must hold.     *)
(*                                                                         *)
(* message.send and message.read are handled by goroutines of the IPC      *)
(* server, one call of each at a time here.  They ignore the errors of     *)
(* their statements.                                                       *)
(***************************************************************************)
EXTENDS Persister

VARIABLES
  sender, sending,            \* what message.send does next, and the message it sends
  reader, reading, readChat   \* what message.read does next, the IDs it collected, its chat

methodVars == <<sender, sending, reader, reading, readChat>>
vars == <<persisterVars, methodVars>>

Init ==
  /\ PersisterInit
  /\ sender = "idle" /\ sending = NoMessage
  /\ reader = "idle" /\ reading = {} /\ readChat \in Chats

\* A statement of a method: the store becomes s, or the statement fails unnoticed.
MethodStatement(s) ==
  /\ ConnectionFree
  /\ \/ db' = s /\ UNCHANGED budget
     \/ /\ budget.faults > 0 /\ UNCHANGED db
        /\ budget' = [budget EXCEPT !.faults = @ - 1]

-----------------------------------------------------------------------------
(* message.send: the network first, then storeOutgoing                     *)

SendMessage(m) ==
  /\ sender = "idle" /\ m \in Messages \ Incoming /\ m \notin sent
  /\ sent' = sent \cup {m}
  /\ sending' = m /\ sender' = "chat"
  /\ UNCHANGED <<db, tx, queueVars, workVars, budget, reader, reading, readChat>>

SendStatement(at, s, next) ==
  /\ sender = at
  /\ MethodStatement(s)
  /\ sender' = next
  /\ UNCHANGED <<tx, queueVars, worker, job, todo, announced, lost, sent, reader, reading, readChat>>

StoreOutgoing ==
  \/ /\ SendStatement("chat", UpsertChat(db, ChatOf[sending]), "insert")
     /\ UNCHANGED <<sending, torn>>
  \/ /\ SendStatement("insert", InsertMessage(db, sending), "last")
     /\ UNCHANGED <<sending, torn>>
  \/ /\ SendStatement("last", UpdateChatLastMessage(db, sending), "idle")
     /\ sending' = NoMessage
     /\ torn' = IF budget' = budget THEN torn ELSE torn \cup {sending}

-----------------------------------------------------------------------------
(* message.read: collect the pending, tell the network, then the tables    *)

\* Nothing is pending: the answer is read: 0.
ReadNothing(c) ==
  /\ reader = "idle" /\ budget.reads > 0 /\ ConnectionFree
  /\ PendingIncomingMessages(db, c) = {}
  /\ budget' = [budget EXCEPT !.reads = @ - 1]
  /\ UNCHANGED <<db, tx, queueVars, workVars, sent, methodVars>>

CollectPending(c) ==
  /\ reader = "idle" /\ budget.reads > 0 /\ ConnectionFree
  /\ PendingIncomingMessages(db, c) # {}
  /\ reading' = PendingIncomingMessages(db, c)
  /\ readChat' = c
  /\ reader' = "network"
  /\ budget' = [budget EXCEPT !.reads = @ - 1]
  /\ UNCHANGED <<db, tx, queueVars, workVars, sent, sender, sending>>

\* MarkRead, external, can fail: nothing is changed then.
MarkRead ==
  /\ reader = "network"
  /\ \/ reader' = "status" /\ UNCHANGED reading
     \/ reader' = "idle" /\ reading' = {}
  /\ UNCHANGED <<persisterVars, sender, sending, readChat>>

ReadStatement(at, s, next) ==
  /\ reader = at
  /\ MethodStatement(s)
  /\ reader' = next
  /\ UNCHANGED <<tx, queueVars, workVars, sent, sender, sending, readChat>>

FinishRead ==
  \/ ReadStatement("status", SetMessagesStatus(db, reading, "read"), "clear") /\ UNCHANGED reading
  \/ ReadStatement("clear", MarkChatRead(db, readChat), "idle") /\ reading' = {}

-----------------------------------------------------------------------------
(* The process dies and is started again: what is committed remains        *)

TornBySender == IF sender = "last" THEN {sending} ELSE {}

Crash ==
  /\ budget.faults > 0 /\ worker # "ended"
  /\ tx' = NoTx /\ inbox' = <<>> /\ done' = FALSE
  /\ worker' = "idle" /\ job' = NoEvent /\ todo' = {}
  /\ lost' = lost \cup UNION {MessagesOf(e) : e \in {inbox[i] : i \in DOMAIN inbox} \cup {job}}
  /\ torn' = torn \cup TornByWorker \cup TornBySender
  /\ sender' = "idle" /\ sending' = NoMessage
  /\ reader' = "idle" /\ reading' = {}
  /\ budget' = [budget EXCEPT !.faults = @ - 1]
  /\ UNCHANGED <<db, handled, accepted, announced, sent, readChat>>

-----------------------------------------------------------------------------

WorkerStep == Take \/ EndWorker \/ LiveStep \/ HistoryStep

Next ==
  \/ /\ \/ \E e \in Deliveries : handleEvent(e)
        \/ Close \/ WorkerStep \/ FailStatement
     /\ UNCHANGED methodVars
  \/ \E m \in Messages : SendMessage(m)
  \/ StoreOutgoing
  \/ \E c \in Chats : ReadNothing(c) \/ CollectPending(c)
  \/ MarkRead \/ FinishRead
  \/ Crash

Spec == Init /\ [][Next]_vars

\* The goroutines go on when they can, and network calls return (sendTimeout).
Fairness ==
  /\ WF_vars(WorkerStep /\ UNCHANGED methodVars)
  /\ WF_vars(StoreOutgoing)
  /\ WF_vars(MarkRead) /\ WF_vars(FinishRead)

FairSpec == Spec /\ Fairness

-----------------------------------------------------------------------------
(* Invariants                                                              *)

TypeOK ==
  /\ db \in Stores /\ tx \in Stores \cup {NoTx}
  /\ inbox \in Seq(Deliveries) /\ done \in BOOLEAN
  /\ handled \subseteq Messages /\ accepted \subseteq handled
  /\ worker \in {"idle", "ended"} \cup MessageSteps \cup OtherSteps \cup HistorySteps
  /\ job \in Deliveries \cup {NoEvent} /\ todo \subseteq Messages
  /\ announced \subseteq Messages /\ lost \subseteq Messages /\ torn \subseteq Messages
  /\ sent \subseteq Messages \ Incoming
  /\ sender \in {"idle", "chat", "insert", "last"} /\ sending \in Messages \cup {NoMessage}
  /\ reader \in {"idle", "network", "status", "clear"}
  /\ reading \subseteq Incoming /\ readChat \in Chats
  /\ budget \in [events : Nat, faults : Nat, reads : Nat, closes : Nat]

\* The chat list is ordered by the newest message, however messages arrive: no stored
\* message is newer than its chat's timestamp, but for those whose handler is between the
\* two statements or was cut off there.
BetweenRowAndChat(m) ==
  \/ m \in torn
  \/ worker = "last" /\ job.ids = {m}
  \/ sender = "last" /\ sending = m

NewestIsLast ==
  \A m \in Messages :
    Exists(db, m) => Time[m] <= db.ts[ChatOf[m]] \/ BetweenRowAndChat(m)

\* The badge never counts a message twice, however often it is delivered, live or in a
\* history batch, before or after a crash.
CountedOnce ==
  \A c \in Chats :
    db.unread[c] <= HistoryUnread[c]
                      + Cardinality({m \in Incoming : ChatOf[m] = c /\ Exists(db, m)})

\* Persist before publish: when message.received is published the row and the chat's last
\* message are committed, and no crash takes them back.
PublishedIsPersisted ==
  \A m \in announced : Exists(db, m) /\ Time[m] <= db.ts[ChatOf[m]] /\ ChatOf[m] \in db.known

InQueue(m) == \E i \in DOMAIN inbox : m \in MessagesOf(inbox[i])

\* What the queue accepted before Close is written, or in the queue or in the worker's hands,
\* or a fault took it; and when the worker has ended it is not in the queue any more.
AcceptedKept ==
  \A m \in accepted :
    \/ Exists(db, m) \/ m \in lost
    \/ worker # "ended" /\ (InQueue(m) \/ m \in MessagesOf(job))

-----------------------------------------------------------------------------
(* Action properties                                                       *)

\* A client is told of a new message once: a redelivery, or the server's echo of a message
\* sent from here, is not published again, not even after a crash.
AnnouncedOnce == [][PublishMessage => job.ids \cap announced = {}]_vars

Rank == [none |-> 0, received |-> 1, sent |-> 1, delivered |-> 2, read |-> 3]

\* A message's ticks only advance: late, repeated and crossing receipts, the server's
\* echo, message.read and history batches never take a status back.
StatusAdvances == [][\A m \in Messages : Rank[db.status[m]] <= Rank[db'.status[m]]]_vars

\* An edit or a revocation outlives redeliveries and history batches that carry the message
\* as it was first sent.
EditsSurvive == [][\A m \in Messages : db.body[m] # "original" => db'.body[m] # "original"]_vars

\* What docs/IPC.md says of message.read: it clears the unread counter.
ReadClears == [][\A c \in Chats : ReadNothing(c) => db.unread[c] = 0]_vars

-----------------------------------------------------------------------------
(* Refinement                                                              *)

\* What the worker has stored and is about to publish; what of it has no increment yet.
Unpublished == IF worker \in {"last", "count", "publish"} THEN job.ids ELSE {}
Uncounted == IF worker \in {"last", "count"} THEN job.ids \cap Incoming ELSE {}

Mail == INSTANCE Mailbox WITH
  tick <- db.status, text <- db.body, badge <- db.unread,
  told <- announced, fresh <- Unpublished, uncounted <- Uncounted

\* The worker's statements, the history transaction, the methods and the faults together
\* implement Mailbox: every message enters once, advances, is counted and told once, in this
\* order, and a batch enters in one step.
MailboxKept == Mail!Spec

-----------------------------------------------------------------------------
(* Liveness                                                                *)

Stuck == worker = "stuck"

\* What the queue accepted before Close is written, drain included: a fault costs no more
\* than the message in the worker's hands, a crash the queue, and only a worker that waits
\* for itself leaves the rest unwritten.
AcceptedIsStored ==
  \A m \in Messages : m \in accepted ~> Exists(db, m) \/ m \in lost \/ Stuck

\* Close returns, whatever statements fail, unless the worker waits for itself.  (~done:
\* the process died first.)
CloseReturns == done ~> worker = "ended" \/ ~done \/ Stuck

\* What the comment on resolveName says: names can be looked up inside a transaction.
\* A history batch in hand is ever done with.
HistoryEnds == worker = "replay" ~> worker = "idle"

=============================================================================
