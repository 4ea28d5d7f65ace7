---------------------------- MODULE MailboxProofs ----------------------------
(***************************************************************************)
(* Messaging implements Mailbox, for any messages, chats, deliveries and   *)
(* bounds.  What is needed beyond the invariants of MessagingProofs is     *)
(* Staged, which says what an open history transaction has written: the    *)
(* commit is then one Import.                                              *)
(***************************************************************************)
EXTENDS MessagingProofs

-----------------------------------------------------------------------------
(* What the statements of repo.go do to ticks, texts and badges            *)

\* Two stores that a client of Mailbox cannot tell apart.
SameView(s, t) == t.status = s.status /\ t.body = s.body /\ t.unread = s.unread

\* Statements on chats that leave messages and counters alone.
LEMMA ChatStatementView ==
  /\ \A s \in Stores, c \in Chats : SameView(s, UpsertChat(s, c))
  /\ \A s \in Stores, m \in Messages : SameView(s, UpdateChatLastMessage(s, m))
  /\ \A s \in Stores, c \in Chats, n \in Nat : SameView(s, SetChatLastTimestamp(s, c, n))
<1>1. \A s \in Stores, c \in Chats : SameView(s, UpsertChat(s, c))
  BY DEF SameView, UpsertChat, Stores
<1>2. \A s \in Stores, m \in Messages : SameView(s, UpdateChatLastMessage(s, m))
  BY DEF SameView, UpdateChatLastMessage, Stores
<1>3. \A s \in Stores, c \in Chats, n \in Nat : SameView(s, SetChatLastTimestamp(s, c, n))
  BY DEF SameView, SetChatLastTimestamp, Stores
<1> QED
  BY <1>1, <1>2, <1>3

\* InsertMessage changes nothing, or stores m with its first tick.
LEMMA InsertMessageView ==
  ASSUME NEW s \in Stores, NEW m \in Messages
  PROVE  LET t == InsertMessage(s, m)
         IN  /\ t.body = s.body /\ t.unread = s.unread /\ t.known = s.known
             /\ \/ t.status = s.status
                \/ /\ ~Exists(s, m)
                   /\ t.status = [s.status EXCEPT ![m] = InitialStatus(m)]
             /\ ChatOf[m] \in s.known /\ ~Exists(s, m) =>
                  t.status = [s.status EXCEPT ![m] = InitialStatus(m)]
BY DEF InsertMessage, Stores

\* The statements on counters.
LEMMA CounterView ==
  ASSUME NEW s \in Stores, NEW c \in Chats, NEW n \in Nat
  PROVE  /\ SetUnread(s, c, n).status = s.status /\ SetUnread(s, c, n).body = s.body
         /\ SetUnread(s, c, n).unread =
              IF c \in s.known THEN [s.unread EXCEPT ![c] = n] ELSE s.unread
         /\ IncrementUnread(s, c).status = s.status /\ IncrementUnread(s, c).body = s.body
         /\ IncrementUnread(s, c).known = s.known
         /\ IncrementUnread(s, c).unread =
              IF c \in s.known THEN [s.unread EXCEPT ![c] = @ + 1] ELSE s.unread
BY DEF SetUnread, IncrementUnread, Stores

-----------------------------------------------------------------------------
(* What an open transaction has written                                    *)

\* A text that the transaction changed is one of a message it sees.
TextsStaged ==
  \A m \in Messages : tx.body[m] # db.body[m] => Exists(tx, m) /\ tx.body[m] # "original"

\* The batch's messages, and of its chat alone, with edits and revocations.
Staged ==
  tx # NoTx =>
    /\ todo \subseteq job.ids
    /\ job.chat \in tx.known
    /\ TextsStaged
    /\ \A c \in Chats \ {job.chat} : tx.unread[c] = db.unread[c]
    /\ \A m \in Messages :
         \/ tx.status[m] = db.status[m]
         \/ ~Exists(db, m) /\ ChatOf[m] = job.chat /\ tx.status[m] = InitialStatus(m)

\* A replayed message is stored with its first tick, or was there, or changes nothing; no
\* other chat's counter moves.
LEMMA ReplayedView ==
  ASSUME NEW s \in Stores, NEW m \in Messages
  PROVE  LET t == Replayed(s, m)
         IN  /\ t.body = s.body /\ t.known = s.known
             /\ \A c \in Chats \ {ChatOf[m]} : t.unread[c] = s.unread[c]
             /\ \/ t.status = s.status
                \/ ~Exists(s, m) /\ t.status = [s.status EXCEPT ![m] = InitialStatus(m)]
<1> DEFINE i == InsertMessage(s, m)
           l == UpdateChatLastMessage(i, m)
           t == Replayed(s, m)
           Goal == /\ t.body = s.body /\ t.known = s.known
                   /\ \A c \in Chats \ {ChatOf[m]} : t.unread[c] = s.unread[c]
                   /\ \/ t.status = s.status
                      \/ ~Exists(s, m) /\ t.status = [s.status EXCEPT ![m] = InitialStatus(m)]
<1>1. /\ i \in Stores /\ i.body = s.body /\ i.unread = s.unread /\ i.known = s.known
      /\ \/ i.status = s.status
         \/ ~Exists(s, m) /\ i.status = [s.status EXCEPT ![m] = InitialStatus(m)]
  BY InsertMessageFacts, InsertMessageView
<1>2. l \in Stores /\ SameView(i, l) /\ l.known = i.known
  BY <1>1, UpdateChatLastMessageFacts, ChatStatementView
<1>3. ChatOf[m] \in Chats
  BY MessagesAssumption
<1>4. t = s \/ t = l \/ t = IncrementUnread(l, ChatOf[m])
  BY DEF Replayed
<1> HIDE DEF i, l, t
<1>5. ASSUME t = s PROVE Goal
  BY <1>5
<1>6. ASSUME t = l PROVE Goal
  BY <1>1, <1>2, <1>6 DEF SameView
<1>7. ASSUME t = IncrementUnread(l, ChatOf[m]) PROVE Goal
  <2>1. /\ t.status = l.status /\ t.body = l.body /\ t.known = l.known
        /\ t.unread = IF ChatOf[m] \in l.known THEN [l.unread EXCEPT ![ChatOf[m]] = @ + 1] ELSE l.unread
    BY <1>2, <1>3, <1>7, CounterView
  <2>2. \A c \in Chats \ {ChatOf[m]} : t.unread[c] = l.unread[c]
    BY <1>2, <2>1 DEF Stores
  <2> QED
    BY <1>1, <1>2, <2>1, <2>2 DEF SameView
<1> QED
  BY <1>4, <1>5, <1>6, <1>7 DEF t

\* The transaction begins with nothing but the chat, and each replayed message keeps to it.
LEMMA HistoryStepStaged ==
  Typed /\ Consistent /\ Staged /\ HistoryStep => Staged'
<1> SUFFICES ASSUME Typed, Consistent, Staged, HistoryStep PROVE Staged'
  OBVIOUS
<1>1. db \in Stores /\ (worker \in HistorySteps => job \in Deliveries /\ job.kind = "history")
  BY DEF Typed, TypeOK, Hands, HistorySteps
<1>2. worker \in HistorySteps => job.chat \in Chats /\ \A m \in job.ids : ChatOf[m] = job.chat
  BY <1>1, DeliveryFacts, DeliveriesAssumption
<1>3. CASE BeginConversation
  <2>1. /\ worker = "begin" /\ tx' = UpsertChat(db, job.chat) /\ todo' = job.ids
        /\ UNCHANGED <<db, job>>
    BY <1>3 DEF BeginConversation
  <2>2. SameView(db, tx') /\ job.chat \in tx'.known
    BY <1>1, <1>2, <2>1, ChatStatementView, UpsertChatFacts DEF HistorySteps
  <2> QED
    BY <2>1, <2>2 DEF Staged, TextsStaged, SameView
<1>4. ASSUME NEW m \in Messages, ReplayMessage(m) PROVE Staged'
  <2>1. worker = "replay" /\ m \in todo /\ todo' = todo \ {m} /\ UNCHANGED <<db, job>>
    BY <1>4 DEF ReplayMessage
  <2>2. tx \in Stores /\ tx # NoTx
    BY <2>1, DeliveriesAssumption DEF Typed, Hands
  <2>3. todo \subseteq job.ids /\ ChatOf[m] = job.chat
    BY <1>2, <2>1, <2>2 DEF Staged, HistorySteps
  <2>4. CASE tx' = tx
    BY <2>1, <2>2, <2>4 DEF Staged, TextsStaged, Exists
  <2>5. CASE tx' = Replayed(tx, m)
    <3>1. /\ tx'.body = tx.body /\ tx'.known = tx.known
          /\ \A c \in Chats \ {job.chat} : tx'.unread[c] = tx.unread[c]
          /\ \/ tx'.status = tx.status
             \/ ~Exists(tx, m) /\ tx'.status = [tx.status EXCEPT ![m] = InitialStatus(m)]
      BY <2>2, <2>3, <2>5, ReplayedView
    <3>2. \A x \in Messages :
            \/ tx'.status[x] = db.status[x]
            \/ ~Exists(db, x) /\ ChatOf[x] = job.chat /\ tx'.status[x] = InitialStatus(x)
      <4>1. CASE tx'.status = tx.status
        BY <2>2, <4>1 DEF Staged
      <4>2. CASE ~Exists(tx, m) /\ tx'.status = [tx.status EXCEPT ![m] = InitialStatus(m)]
        <5>1. ~Exists(db, m) /\ tx'.status[m] = InitialStatus(m)
          BY <2>2, <4>2 DEF Staged, Exists, Stores, InitialStatus
        <5>2. \A x \in Messages \ {m} : tx'.status[x] = tx.status[x]
          BY <2>2, <4>2 DEF Stores
        <5> QED
          BY <2>2, <2>3, <5>1, <5>2 DEF Staged
      <4> QED
        BY <3>1, <4>1, <4>2
    <3>3. \A x \in Messages : Exists(tx, x) => Exists(tx', x)
      BY <2>2, <3>1 DEF Exists, Stores, InitialStatus
    <3>4. TextsStaged'
      BY <2>1, <2>2, <3>1, <3>3 DEF Staged, TextsStaged, Exists
    <3> QED
      BY <2>1, <2>2, <2>3, <3>1, <3>2, <3>4 DEF Staged, Exists
  <2>6. ASSUME NEW ids \in SUBSET Messages,
               tx' = SetMessageEdited(tx, ids) \/ tx' = SetMessageDeleted(tx, ids)
        PROVE  Staged'
    <3>1. /\ tx'.status = tx.status /\ tx'.known = tx.known /\ tx'.unread = tx.unread
          /\ \A x \in Messages :
               tx'.body[x] = tx.body[x] \/ (Exists(tx, x) /\ tx'.body[x] # "original")
      BY <2>2, <2>6 DEF SetMessageEdited, SetMessageDeleted, Stores
    <3>2. TextsStaged'
      BY <2>1, <2>2, <3>1 DEF Staged, TextsStaged, Exists
    <3> QED
      BY <2>1, <2>2, <3>1, <3>2 DEF Staged, Exists
  <2> QED
    BY <1>4, <2>4, <2>5, <2>6, ReplayCases
<1>5. CASE LookupInTransaction
  BY <1>5 DEF LookupInTransaction, Staged, TextsStaged, Exists
<1>6. CASE CommitConversation
  BY <1>6 DEF CommitConversation, Staged
<1> QED
  BY <1>3, <1>4, <1>5, <1>6 DEF HistoryStep

\* Nobody else writes, or takes an event, while a transaction is open.
LEMMA NextStaged == Typed /\ Consistent /\ Staged /\ [Next]_vars => Staged'
<1> SUFFICES ASSUME Typed, Consistent, Staged, [Next]_vars PROVE Staged'
  OBVIOUS
<1>1. ASSUME UNCHANGED <<tx, db, job, todo>> PROVE Staged'
  BY <1>1 DEF Staged, TextsStaged, Exists
<1>2. ASSUME tx = NoTx, UNCHANGED tx PROVE Staged'
  BY <1>2 DEF Staged
<1>3. ASSUME tx' = NoTx PROVE Staged'
  BY <1>3 DEF Staged
<1>4. worker \notin {"replay", "stuck"} => tx = NoTx
  BY DEF Consistent, TxConsistent
<1>5. CASE LiveStep
  <2>1. tx = NoTx /\ UNCHANGED tx
    BY <1>4, <1>5 DEF LiveStep, StoreChat, CountUnread, PublishMessage, StoreMessage, StoreLast,
         RevokeMessage, EditMessage, StoreReceipt, ClearUnread, Statement, ConnectionFree
  <2> QED
    BY <1>2, <2>1
<1>6. CASE StoreOutgoing \/ FinishRead
  BY <1>2, <1>6 DEF StoreOutgoing, SendStatement, FinishRead, ReadStatement, MethodStatement,
                    ConnectionFree
<1>7. CASE Take
  BY <1>2, <1>4, <1>7 DEF Take
<1>8. CASE HistoryStep
  BY <1>8, HistoryStepStaged
<1>9. CASE FailStatement \/ Crash
  BY <1>3, <1>9 DEF FailStatement, Crash
<1>10. CASE \/ \E e \in Deliveries : handleEvent(e)
            \/ Close \/ EndWorker \/ MarkRead \/ UNCHANGED vars
            \/ \E m \in Messages : SendMessage(m)
            \/ \E c \in Chats : ReadNothing(c) \/ CollectPending(c)
  BY <1>1, <1>10 DEF handleEvent, Close, EndWorker, MarkRead, SendMessage, ReadNothing,
       CollectPending, persisterVars, workVars, vars
<1> QED
  BY <1>5, <1>6, <1>7, <1>8, <1>9, <1>10 DEF Next, WorkerStep

-----------------------------------------------------------------------------
(* The refinement, step by step                                            *)

Whole == Typed /\ Consistent /\ Counted /\ Staged

SameNews == UNCHANGED <<announced, Unpublished, Uncounted>>

\* A step that Mailbox does not see.
LEMMA Stutter == SameView(db, db') /\ SameNews => UNCHANGED Mail!vars
BY DEF SameView, SameNews, Mail!vars

\* What the worker is at decides what is unpublished.
LEMMA SameWork == UNCHANGED <<worker, job, announced>> => SameNews
BY DEF SameNews, Unpublished, Uncounted

\* Away from the last steps of a message nothing is unpublished.
LEMMA NoNews ==
  worker \notin {"last", "count", "publish"} => Unpublished = {} /\ Uncounted = {}
BY DEF Unpublished, Uncounted

\* A step between two points at which nothing is unpublished.
LEMMA NoNewsStep ==
  ASSUME worker \notin {"last", "count", "publish"}, worker' \notin {"last", "count", "publish"},
         UNCHANGED announced
  PROVE  SameNews
BY DEF SameNews, Unpublished, Uncounted

\* The event of a message is about one message and its chat.
LEMMA MessageInHand ==
  ASSUME Typed, worker \in MessageSteps
  PROVE  \E m \in Messages : job.ids = {m} /\ job.chat = ChatOf[m]
<1>1. job \in Deliveries /\ job.kind = "message"
  BY DEF Typed, Hands, MessageSteps
<1> QED
  BY <1>1, DeliveryFacts

\* Receive: StoreMessage stores the row, unless it was there.
LEMMA StoreMessageRefines ==
  ASSUME Whole, NEW m \in Messages, StoreMessage(m)
  PROVE  Mail!Receive(m) \/ UNCHANGED Mail!vars
<1>1. /\ worker = "insert" /\ job.ids = {m} /\ db' = InsertMessage(db, m)
      /\ worker' = IF Exists(db, m) THEN "idle" ELSE "last"
      /\ UNCHANGED announced
  BY DEF StoreMessage, Statement
<1>2. db \in Stores /\ ChatOf[m] \in db.known
  BY <1>1, MessageInHand DEF Whole, Typed, TypeOK, Consistent, Ready, MessageSteps
<1>3. CASE Exists(db, m)
  <2>1. db' = db
    BY <1>1, <1>3 DEF InsertMessage
  <2> QED
    BY <1>1, <1>3, <2>1, NoNewsStep, Stutter DEF SameView
<1>4. CASE ~Exists(db, m)
  <2>1. /\ db'.body = db.body /\ db'.unread = db.unread
        /\ db'.status = [db.status EXCEPT ![m] = InitialStatus(m)]
    BY <1>1, <1>2, <1>4, InsertMessageView
  <2>2. worker' = "last" /\ job' = job
    BY <1>1, <1>4 DEF StoreMessage, Statement
  <2>3. Unpublished = {} /\ Unpublished' = {m} /\ Uncounted' = {m} \cap Incoming
    BY <1>1, <2>2 DEF Unpublished, Uncounted
  <2> QED
    BY <1>1, <1>4, <2>1, <2>3
    DEF Mail!Receive, Mail!Stored, Mail!FirstTick, Exists, InitialStatus
<1> QED
  BY <1>3, <1>4

\* Count: CountUnread increments the counter of a message that came in and was stored.
LEMMA CountUnreadRefines ==
  ASSUME Whole, CountUnread PROVE \E m \in Messages : Mail!Count(m)
<1>1. /\ worker = "count" /\ worker' = "publish" /\ job' = job
      /\ db' = IncrementUnread(db, job.chat) /\ UNCHANGED announced
  BY DEF CountUnread, Statement
<1>2. PICK m \in Messages : job.ids = {m} /\ job.chat = ChatOf[m]
  BY <1>1, MessageInHand DEF Whole, MessageSteps
<1>3. m \in Incoming /\ Exists(db, m) /\ ChatOf[m] \in db.known /\ db \in Stores
  BY <1>1, <1>2 DEF Whole, Counted, Consistent, Ready, Linked, Typed, TypeOK
<1>4. /\ db'.status = db.status /\ db'.body = db.body
      /\ db'.unread = [db.unread EXCEPT ![ChatOf[m]] = @ + 1]
  <2>1. ChatOf[m] \in Chats /\ 0 \in Nat /\ db' = IncrementUnread(db, ChatOf[m])
    BY <1>1, <1>2, MessagesAssumption
  <2> QED BY <1>3, <2>1, CounterView
<1>5. /\ Uncounted = {m} /\ Uncounted' = {}
      /\ Unpublished = {m} /\ Unpublished' = {m}
  BY <1>1, <1>2, <1>3 DEF Uncounted, Unpublished
<1>6. Mail!Count(m)
  BY <1>1, <1>4, <1>5 DEF Mail!Count
<1> QED
  BY <1>6

\* Tell: PublishMessage announces what is stored and counted.
LEMMA PublishMessageRefines ==
  ASSUME Whole, PublishMessage PROVE \E m \in Messages : Mail!Tell(m)
<1>1. /\ worker = "publish" /\ worker' = "idle" /\ db' = db /\ announced' = announced \cup job.ids
  BY DEF PublishMessage
<1>2. PICK m \in Messages : job.ids = {m}
  BY <1>1, MessageInHand DEF Whole, MessageSteps
<1>3. Unpublished = {m} /\ Unpublished' = {} /\ Uncounted = {} /\ Uncounted' = {}
  BY <1>1, <1>2 DEF Unpublished, Uncounted
<1>4. Mail!Tell(m)
  BY <1>1, <1>2, <1>3 DEF Mail!Tell
<1> QED
  BY <1>4

\* Advance: a receipt, or message.read, marks those that are stored and not beyond it.
LEMMA StatusRefines ==
  ASSUME db \in Stores, NEW ids \in SUBSET Messages, NEW t \in {"delivered", "read"},
         db' = SetMessagesStatus(db, ids, t), SameNews
  PROVE  \E S \in SUBSET Messages : Mail!Advance(S, t)
<1> DEFINE S == {m \in ids : Exists(db, m) /\ ~(t = "delivered" /\ db.status[m] = "read")}
<1>1. /\ db'.body = db.body /\ db'.unread = db.unread
      /\ db'.status = [m \in Messages |-> IF m \in S THEN t ELSE db.status[m]]
  BY DEF SetMessagesStatus, Stores
<1>2. ASSUME NEW m \in S PROVE db.status[m] # "none" /\ Mail!Level[db.status[m]] <= Mail!Level[t]
  <2>1. db.status[m] \in Statuses /\ db.status[m] # "none"
    BY <1>2 DEF Stores, Exists
  <2> QED
    BY <1>2, <2>1 DEF Statuses, Mail!Level
<1>3. Mail!Advance(S, t)
  BY <1>1, <1>2 DEF Mail!Advance, Mail!Stored, SameNews
<1> QED
  BY <1>3

\* Rewrite: an edit or a revocation changes the text of what is stored.
LEMMA TextRefines ==
  ASSUME db \in Stores, NEW ids \in SUBSET Messages, SameNews,
         db' = SetMessageEdited(db, ids) \/ db' = SetMessageDeleted(db, ids)
  PROVE  \E S \in SUBSET Messages, t \in {"edited", "deleted"} : Mail!Rewrite(S, t)
<1> DEFINE S == {m \in ids : Exists(db, m)}
<1>1. PICK t \in {"edited", "deleted"} :
        /\ db'.status = db.status /\ db'.unread = db.unread
        /\ db'.body = [m \in Messages |-> IF m \in S THEN t ELSE db.body[m]]
  BY DEF SetMessageEdited, SetMessageDeleted, Stores
<1>2. Mail!Rewrite(S, t)
  BY <1>1 DEF Mail!Rewrite, Mail!Stored, SameNews, Exists
<1> QED
  BY <1>2

\* Clear: a counter is reset, or the chat is unknown.
LEMMA ClearRefines ==
  ASSUME db \in Stores, NEW c \in Chats, db' = SetUnread(db, c, 0), SameNews
  PROVE  Mail!Clear(c) \/ UNCHANGED Mail!vars
<1>1. /\ db'.status = db.status /\ db'.body = db.body
      /\ db'.unread = IF c \in db.known THEN [db.unread EXCEPT ![c] = 0] ELSE db.unread
  BY CounterView
<1> QED
  BY <1>1, Stutter DEF Mail!Clear, SameView, SameNews

\* The live events.
LEMMA LiveStepRefines == Whole /\ LiveStep => Mail!Next \/ UNCHANGED Mail!vars
<1> SUFFICES ASSUME Whole, LiveStep PROVE Mail!Next \/ UNCHANGED Mail!vars
  OBVIOUS
<1>1. db \in Stores /\ (worker \in MessageSteps \cup OtherSteps => job \in Deliveries)
  BY DEF Whole, Typed, TypeOK, Hands, MessageSteps, OtherSteps
<1>2. worker \in MessageSteps \cup OtherSteps => job.chat \in Chats /\ job.ids \in SUBSET Messages
  BY <1>1, DeliveryFacts
<1>3. CASE StoreChat
  <2>1. /\ worker = "chat" /\ worker' = "insert" /\ db' = UpsertChat(db, job.chat)
        /\ UNCHANGED announced
    BY <1>3 DEF StoreChat, Statement
  <2>2. SameView(db, db')
    BY <1>1, <1>2, <2>1, ChatStatementView DEF MessageSteps
  <2> QED
    BY <2>1, <2>2, NoNewsStep, Stutter
<1>4. CASE \E m \in Messages : StoreMessage(m)
  BY <1>4, StoreMessageRefines DEF Mail!Next
<1>5. ASSUME NEW m \in Messages, StoreLast(m) PROVE UNCHANGED Mail!vars
  <2>1. /\ worker = "last" /\ job.ids = {m} /\ db' = UpdateChatLastMessage(db, m)
        /\ worker' = IF m \in Incoming THEN "count" ELSE "publish"
        /\ job' = job /\ UNCHANGED announced
    BY <1>5 DEF StoreLast, Statement
  <2>2. SameView(db, db')
    BY <1>1, <2>1, ChatStatementView
  <2>3. SameNews
    BY <2>1 DEF SameNews, Unpublished, Uncounted
  <2> QED
    BY <2>2, <2>3, Stutter
<1>6. CASE CountUnread
  BY <1>6, CountUnreadRefines DEF Mail!Next
<1>7. CASE PublishMessage
  BY <1>7, PublishMessageRefines DEF Mail!Next
<1>8. CASE RevokeMessage \/ EditMessage
  <2>1. /\ worker \in {"revoke", "edit"} /\ worker' = "idle" /\ UNCHANGED announced
        /\ db' = SetMessageEdited(db, job.ids) \/ db' = SetMessageDeleted(db, job.ids)
    BY <1>8 DEF RevokeMessage, EditMessage, Statement
  <2>2. SameNews /\ job.ids \in SUBSET Messages
    BY <1>2, <2>1, NoNewsStep DEF OtherSteps
  <2> QED
    BY <1>1, <2>1, <2>2, TextRefines DEF Mail!Next
<1>9. CASE StoreReceipt
  <2>1. PICK t \in {"delivered", "read"} : db' = SetMessagesStatus(db, job.ids, t)
    BY <1>9 DEF StoreReceipt, Statement
  <2>2. worker = "status" /\ worker' \in {"clear", "idle"} /\ UNCHANGED announced
    BY <1>9 DEF StoreReceipt, Statement
  <2>3. SameNews /\ job.ids \in SUBSET Messages
    BY <1>2, <2>2, NoNewsStep DEF OtherSteps
  <2> QED
    BY <1>1, <2>1, <2>3, StatusRefines DEF Mail!Next
<1>10. CASE ClearUnread
  <2>1. /\ worker = "clear" /\ worker' = "idle" /\ UNCHANGED announced
        /\ db' = SetUnread(db, job.chat, 0)
    BY <1>10 DEF ClearUnread, Statement, MarkChatRead
  <2>2. SameNews /\ job.chat \in Chats
    BY <1>2, <2>1, NoNewsStep DEF OtherSteps
  <2> QED
    BY <1>1, <2>1, <2>2, ClearRefines DEF Mail!Next
<1> QED
  BY <1>3, <1>4, <1>5, <1>6, <1>7, <1>8, <1>9, <1>10 DEF LiveStep

\* Import: what the transaction has written enters with its commit, in one step.
LEMMA CommitRefines == Whole /\ CommitConversation => Mail!Next
<1> SUFFICES ASSUME Whole, CommitConversation PROVE Mail!Next
  OBVIOUS
<1> DEFINE i == SetChatLastTimestamp(tx, job.chat, job.ts)
           S == {m \in Messages : tx.status[m] # db.status[m]}
<1>1. /\ worker = "replay" /\ worker' = "idle" /\ db' = SetUnread(i, job.chat, job.unread)
      /\ UNCHANGED announced
  BY DEF CommitConversation
<1>2. job \in Deliveries /\ job.kind = "history" /\ tx \in Stores /\ tx # NoTx /\ db \in Stores
  BY <1>1, DeliveriesAssumption DEF Whole, Typed, TypeOK, Hands, HistorySteps
<1>3. /\ job.chat \in Chats /\ job.ts \in Nat /\ job.unread \in Nat
      /\ job.unread <= HistoryUnread[job.chat] /\ HistoryUnread[job.chat] \in Nat
  BY <1>2, DeliveryFacts, DeliveriesAssumption
<1>4. /\ job.chat \in tx.known /\ TextsStaged
      /\ \A c \in Chats \ {job.chat} : tx.unread[c] = db.unread[c]
      /\ \A m \in Messages :
           \/ tx.status[m] = db.status[m]
           \/ ~Exists(db, m) /\ ChatOf[m] = job.chat /\ tx.status[m] = InitialStatus(m)
  BY <1>2 DEF Whole, Staged
<1>5. i \in Stores /\ SameView(tx, i) /\ job.chat \in i.known
  BY <1>2, <1>3, <1>4, ChatStatementView, SetChatLastTimestampFacts DEF Grows
<1> HIDE DEF i
<1>6. /\ db'.status = tx.status /\ db'.body = tx.body
      /\ db'.unread = [tx.unread EXCEPT ![job.chat] = job.unread]
  <2>1. /\ SetUnread(i, job.chat, job.unread).status = i.status
        /\ SetUnread(i, job.chat, job.unread).body = i.body
        /\ SetUnread(i, job.chat, job.unread).unread = [i.unread EXCEPT ![job.chat] = job.unread]
    BY <1>3, <1>5, CounterView
  <2> QED
    BY <1>1, <1>4, <1>5, <2>1 DEF SameView
<1>7. db'.unread = [db.unread EXCEPT ![job.chat] = job.unread]
  <2>1. tx.unread \in [Chats -> Nat] /\ db.unread \in [Chats -> Nat]
    BY <1>2 DEF Stores
  <2> QED
    BY <1>4, <1>6, <2>1
<1>8. db'.status = [m \in Messages |-> IF m \in S THEN InitialStatus(m) ELSE db.status[m]]
  <2>1. tx.status \in [Messages -> Statuses] /\ db.status \in [Messages -> Statuses]
    BY <1>2 DEF Stores
  <2>2. \A m \in Messages : tx.status[m] = IF m \in S THEN InitialStatus(m) ELSE db.status[m]
    BY <1>4
  <2> QED
    BY <1>6, <2>1, <2>2
<1>9. \A m \in S : ChatOf[m] = job.chat /\ db.status[m] = "none"
  BY <1>4 DEF Exists
<1>10. \A m \in Messages :
         tx.body[m] # db.body[m] => tx.body[m] # "original" /\ (db.status[m] # "none" \/ m \in S)
  BY <1>4 DEF TextsStaged, Exists
<1>11. db'.body \in [Messages -> {"original", "edited", "deleted"}]
  BY <1>2, <1>6 DEF Stores
<1>12. SameNews /\ Unpublished = {}
  BY <1>1, NoNewsStep, NoNews
<1> HIDE DEF S
<1>13. Mail!Import(job.chat, S, job.unread)
  BY <1>6, <1>7, <1>8, <1>9, <1>10, <1>11, <1>12
  DEF Mail!Import, Mail!Stored, Mail!FirstTick, InitialStatus, SameNews
<1>14. S \in SUBSET Messages /\ job.unread \in 0..HistoryUnread[job.chat]
  BY <1>3 DEF S
<1> QED
  BY <1>3, <1>13, <1>14 DEF Mail!Next

\* The rest of a history transaction is not seen.
LEMMA HistoryStepRefines == Whole /\ HistoryStep => Mail!Next \/ UNCHANGED Mail!vars
<1> SUFFICES ASSUME Whole, HistoryStep PROVE Mail!Next \/ UNCHANGED Mail!vars
  OBVIOUS
<1>1. CASE CommitConversation
  BY <1>1, CommitRefines
<1>2. CASE BeginConversation \/ LookupInTransaction \/ \E m \in Messages : ReplayMessage(m)
  <2>1. /\ worker \in {"begin", "replay"} /\ worker' \in {"replay", "stuck"}
        /\ UNCHANGED <<db, announced>>
    BY <1>2 DEF BeginConversation, LookupInTransaction, ReplayMessage
  <2> QED
    BY <2>1, NoNewsStep, Stutter DEF SameView
<1> QED
  BY <1>1, <1>2 DEF HistoryStep

\* The methods: message.send stores a message from here, message.read advances and clears.
LEMMA MethodRefines ==
  Whole /\ (StoreOutgoing \/ FinishRead) => Mail!Next \/ UNCHANGED Mail!vars
<1> SUFFICES ASSUME Whole, StoreOutgoing \/ FinishRead PROVE Mail!Next \/ UNCHANGED Mail!vars
  OBVIOUS
<1>1. SameNews
  BY SameWork DEF StoreOutgoing, SendStatement, FinishRead, ReadStatement, workVars
<1>2. /\ db \in Stores /\ reading \in SUBSET Messages /\ readChat \in Chats
      /\ StoreOutgoing => sending \in Messages \ Incoming /\ ChatOf[sending] \in Chats
  BY MessagesAssumption
  DEF Whole, Typed, TypeOK, Hands, StoreOutgoing, SendStatement
<1>3. CASE db' = db
  BY <1>1, <1>3, Stutter DEF SameView
<1>4. CASE StoreOutgoing /\ db' # db
  <2>1. \/ db' = UpsertChat(db, ChatOf[sending]) \/ db' = InsertMessage(db, sending)
        \/ db' = UpdateChatLastMessage(db, sending)
    BY <1>4 DEF StoreOutgoing, SendStatement, MethodStatement
  <2>2. CASE db' = UpsertChat(db, ChatOf[sending]) \/ db' = UpdateChatLastMessage(db, sending)
    BY <1>1, <1>2, <1>4, <2>2, ChatStatementView, Stutter
  <2>3. CASE db' = InsertMessage(db, sending)
    <3>1. /\ db'.body = db.body /\ db'.unread = db.unread
          /\ \/ db'.status = db.status
             \/ /\ ~Exists(db, sending)
                /\ db'.status = [db.status EXCEPT ![sending] = InitialStatus(sending)]
      BY <1>2, <1>4, <2>3, InsertMessageView
    <3>2. CASE db'.status = db.status
      BY <1>1, <3>1, <3>2, Stutter DEF SameView
    <3>3. CASE /\ ~Exists(db, sending)
               /\ db'.status = [db.status EXCEPT ![sending] = InitialStatus(sending)]
      <4>1. Mail!Send(sending)
        BY <1>1, <1>2, <1>4, <3>1, <3>3
        DEF Mail!Send, Mail!Stored, Mail!FirstTick, Exists, InitialStatus, SameNews
      <4> QED
        BY <1>2, <1>4, <4>1 DEF Mail!Next
    <3> QED
      BY <3>1, <3>2, <3>3
  <2> QED
    BY <2>1, <2>2, <2>3
<1>5. CASE FinishRead /\ db' # db
  <2>1. db' = SetMessagesStatus(db, reading, "read") \/ db' = SetUnread(db, readChat, 0)
    BY <1>5 DEF FinishRead, ReadStatement, MethodStatement, MarkChatRead
  <2>2. CASE db' = SetMessagesStatus(db, reading, "read")
    BY <1>1, <1>2, <2>2, StatusRefines DEF Mail!Next
  <2>3. CASE db' = SetUnread(db, readChat, 0)
    BY <1>1, <1>2, <2>3, ClearRefines DEF Mail!Next
  <2> QED
    BY <2>1, <2>2, <2>3
<1> QED
  BY <1>3, <1>4, <1>5

\* Forget: a fault takes what is stored and unpublished out of the worker's hands.
LEMMA FaultRefines == Whole /\ (FailStatement \/ Crash) => Mail!Next \/ UNCHANGED Mail!vars
<1> SUFFICES ASSUME Whole, FailStatement \/ Crash PROVE Mail!Next \/ UNCHANGED Mail!vars
  OBVIOUS
<1>1. worker' = "idle" /\ UNCHANGED <<db, announced>>
  BY DEF FailStatement, Crash
<1>2. CASE worker \in {"last", "count", "publish"}
  <2>1. Unpublished # {} /\ Unpublished' = {} /\ Uncounted' = {}
    BY <1>1, <1>2, MessageInHand DEF Whole, Unpublished, Uncounted, MessageSteps
  <2> QED
    BY <1>1, <2>1 DEF Mail!Next, Mail!Forget
<1>3. CASE worker \notin {"last", "count", "publish"}
  BY <1>1, <1>3, NoNewsStep, Stutter DEF SameView
<1> QED
  BY <1>2, <1>3

\* Every step of Messaging is a step of Mailbox or not seen by it.
LEMMA NextRefines == Whole /\ [Next]_vars => [Mail!Next]_(Mail!vars)
<1> SUFFICES ASSUME Whole, [Next]_vars PROVE Mail!Next \/ UNCHANGED Mail!vars
  OBVIOUS
<1>1. CASE LiveStep
  BY <1>1, LiveStepRefines
<1>2. CASE HistoryStep
  BY <1>2, HistoryStepRefines
<1>3. CASE StoreOutgoing \/ FinishRead
  BY <1>3, MethodRefines
<1>4. CASE FailStatement \/ Crash
  BY <1>4, FaultRefines
<1>5. CASE Take
  <2>1. /\ worker = "idle" /\ worker' = FirstStep[Head(inbox).kind] /\ Head(inbox) \in Deliveries
        /\ UNCHANGED <<db, announced>>
    BY <1>5 DEF Take, Whole, Typed, TypeOK
  <2>2. worker' \in {"chat", "begin", "revoke", "edit", "status"}
    BY <2>1, DeliveryFacts DEF FirstStep
  <2> QED
    BY <2>1, <2>2, NoNewsStep, Stutter DEF SameView
<1>6. CASE EndWorker
  <2>1. worker = "idle" /\ worker' = "ended" /\ UNCHANGED <<db, announced>>
    BY <1>6 DEF EndWorker
  <2> QED
    BY <2>1, NoNewsStep, Stutter DEF SameView
<1>7. CASE \/ \E e \in Deliveries : handleEvent(e)
           \/ Close \/ MarkRead \/ UNCHANGED vars
           \/ \E m \in Messages : SendMessage(m)
           \/ \E c \in Chats : ReadNothing(c) \/ CollectPending(c)
  <2>1. UNCHANGED <<db, worker, job, announced>>
    BY <1>7 DEF handleEvent, Close, MarkRead, SendMessage, ReadNothing, CollectPending,
         persisterVars, workVars, vars
  <2> QED
    BY <2>1, SameWork, Stutter DEF SameView
<1> QED
  BY <1>1, <1>2, <1>3, <1>4, <1>5, <1>6, <1>7 DEF Next, WorkerStep

\* The worker, the history transactions, the methods and the faults together implement
\* Mailbox: a message enters once, advances, is counted and told at most once in this order.
THEOREM MailboxImplemented == Spec => MailboxKept
<1>1. Init => Mail!Init
  BY DEF Init, PersisterInit, EmptyStore, Mail!Init, Unpublished, Uncounted
<1>2. Init => Staged
  BY DEF Init, PersisterInit, Staged
<1>3. Typed /\ Consistent /\ Counted /\ Staged <=> Whole
  BY DEF Whole
<1> QED
  BY <1>1, <1>2, <1>3, ConsistentAlways, InitCounted, NextCounted, NextStaged, NextRefines, PTL
  DEF Spec, MailboxKept, Mail!Spec

=============================================================================
