--------------------------- MODULE MessagingProofs ---------------------------
(***************************************************************************)
(* Proofs about Messaging, for any messages, chats, deliveries and bounds: *)
(* type correctness, what is published is persisted, the newest message is *)
(* the last, no message is counted twice, and no store ever goes back.     *)
(***************************************************************************)
EXTENDS Messaging, FiniteSetTheorems, TLAPS

-----------------------------------------------------------------------------
(* What the statements of repo.go do to a store                            *)

\* t is a store that s can have become: rows, timestamps, ticks and edits are kept.
Grows(s, t) ==
  /\ s.known \subseteq t.known
  /\ \A c \in Chats : s.ts[c] <= t.ts[c]
  /\ \A m \in Messages : Rank[s.status[m]] <= Rank[t.status[m]]
  /\ \A m \in Messages : s.body[m] # "original" => t.body[m] # "original"

SameRows(s, t) == \A m \in Messages : Exists(t, m) <=> Exists(s, m)

\* The ranks of the statuses.
LEMMA Ranks ==
  /\ Rank["none"] = 0 /\ Rank["received"] = 1 /\ Rank["sent"] = 1
  /\ Rank["delivered"] = 2 /\ Rank["read"] = 3
BY DEF Rank

\* A row is a status above none.
LEMMA RankOfRow ==
  \A x \in Statuses : Rank[x] \in Nat /\ (x # "none" <=> Rank[x] >= 1)
BY Ranks DEF Statuses

\* Growth is transitive and reflexive.
LEMMA GrowsTransitive ==
  ASSUME NEW s \in Stores, NEW t \in Stores, NEW u \in Stores, Grows(s, t), Grows(t, u)
  PROVE  Grows(s, u)
<1>1. \A m \in Messages : Rank[s.status[m]] <= Rank[u.status[m]]
  BY RankOfRow DEF Grows, Stores
<1>2. \A c \in Chats : s.ts[c] <= u.ts[c]
  BY DEF Grows, Stores
<1> QED
  BY <1>1, <1>2 DEF Grows

\* Growth is reflexive.
LEMMA GrowsReflexive == ASSUME NEW s \in Stores PROVE Grows(s, s)
BY RankOfRow DEF Grows, Stores

\* What has a row keeps it.
LEMMA GrowsKeepsRows ==
  ASSUME NEW s \in Stores, NEW t \in Stores, Grows(s, t), NEW m \in Messages, Exists(s, m)
  PROVE  Exists(t, m)
<1>1. s.status[m] \in Statuses /\ t.status[m] \in Statuses
  BY DEF Stores
<1> QED
  BY <1>1, RankOfRow DEF Grows, Exists

\* UpsertChat adds the chat and keeps everything else.
LEMMA UpsertChatFacts ==
  ASSUME NEW s \in Stores, NEW c \in Chats
  PROVE  /\ UpsertChat(s, c) \in Stores /\ Grows(s, UpsertChat(s, c))
         /\ SameRows(s, UpsertChat(s, c)) /\ UpsertChat(s, c).unread = s.unread
         /\ UpsertChat(s, c).known = s.known \cup {c}
<1> DEFINE t == UpsertChat(s, c)
<1>1. /\ t.status = s.status /\ t.body = s.body /\ t.ts = s.ts /\ t.unread = s.unread
      /\ t.known = s.known \cup {c} /\ t \in Stores
  BY DEF UpsertChat, Stores
<1> QED
  BY <1>1, GrowsReflexive DEF Grows, SameRows, Exists

\* InsertMessage adds at most the row of m, and does if the chat is known.
LEMMA InsertMessageFacts ==
  ASSUME NEW s \in Stores, NEW m \in Messages
  PROVE  LET t == InsertMessage(s, m)
         IN  /\ t \in Stores /\ Grows(s, t) /\ t.unread = s.unread
             /\ t.known = s.known /\ t.ts = s.ts
             /\ \A x \in Messages \ {m} : Exists(t, x) <=> Exists(s, x)
             /\ ChatOf[m] \in s.known => Exists(t, m)
             /\ Exists(t, m) => Exists(s, m) \/ ChatOf[m] \in s.known
<1> DEFINE t == InsertMessage(s, m)
<1>1. CASE t = s
  BY <1>1, GrowsReflexive DEF InsertMessage, Exists, InitialStatus, Stores
<1>2. CASE ChatOf[m] \in s.known /\ ~Exists(s, m)
  <2>1. t = [s EXCEPT !.status[m] = InitialStatus(m)]
    BY <1>2 DEF InsertMessage
  <2>2. /\ t.body = s.body /\ t.ts = s.ts /\ t.unread = s.unread /\ t.known = s.known
        /\ t.status = [s.status EXCEPT ![m] = InitialStatus(m)] /\ t \in Stores
    BY <2>1 DEF InitialStatus, Stores, Statuses
  <2>3. InitialStatus(m) # "none" /\ t.status[m] = InitialStatus(m)
    BY <2>2 DEF InitialStatus, Stores
  <2>4. \A x \in Messages \ {m} : t.status[x] = s.status[x]
    BY <2>2 DEF Stores
  <2>5. \A x \in Messages : Rank[s.status[x]] <= Rank[t.status[x]]
    <3>1. Rank[s.status[m]] <= Rank[t.status[m]]
      BY <1>2, <2>2, <2>3, Ranks, RankOfRow DEF Exists, Stores
    <3>2. \A x \in Messages \ {m} : Rank[s.status[x]] <= Rank[t.status[x]]
      BY <2>4, RankOfRow DEF Stores
    <3> QED
      BY <3>1, <3>2
  <2>6. Grows(s, t)
    BY <2>2, <2>5 DEF Grows, Stores
  <2> QED
    BY <1>2, <2>2, <2>3, <2>4, <2>6 DEF Exists
<1> QED
  BY <1>1, <1>2 DEF InsertMessage

\* UpdateChatLastMessage brings the chat's timestamp up to the message's.
LEMMA UpdateChatLastMessageFacts ==
  ASSUME NEW s \in Stores, NEW m \in Messages
  PROVE  LET t == UpdateChatLastMessage(s, m)
         IN  /\ t \in Stores /\ Grows(s, t) /\ SameRows(s, t) /\ t.unread = s.unread
             /\ t.known = s.known
             /\ ChatOf[m] \in s.known => Time[m] <= t.ts[ChatOf[m]]
<1> DEFINE t == UpdateChatLastMessage(s, m)
<1>1. ChatOf[m] \in Chats /\ Time[m] \in Nat
  BY MessagesAssumption
<1>2. CASE ChatOf[m] \in s.known /\ Time[m] >= s.ts[ChatOf[m]]
  <2>1. t = [s EXCEPT !.last[ChatOf[m]] = m, !.ts[ChatOf[m]] = Time[m]]
    BY <1>2 DEF UpdateChatLastMessage
  <2>a. s.last \in [Chats -> Messages \cup {NoMessage}] /\ s.ts \in [Chats -> Nat]
    BY DEF Stores
  <2>b. t = [s EXCEPT !.last = [s.last EXCEPT ![ChatOf[m]] = m],
                      !.ts = [s.ts EXCEPT ![ChatOf[m]] = Time[m]]]
    BY <2>1
  <2>c. /\ [s.last EXCEPT ![ChatOf[m]] = m] \in [Chats -> Messages \cup {NoMessage}]
        /\ [s.ts EXCEPT ![ChatOf[m]] = Time[m]] \in [Chats -> Nat]
    BY <1>1, <2>a
  <2>2. /\ t.status = s.status /\ t.body = s.body /\ t.unread = s.unread /\ t.known = s.known
        /\ t.ts = [s.ts EXCEPT ![ChatOf[m]] = Time[m]] /\ t \in Stores
    BY <2>b, <2>c DEF Stores
  <2>3. \A c \in Chats : s.ts[c] <= t.ts[c]
    BY <1>1, <1>2, <2>2 DEF Stores
  <2>4. Time[m] <= t.ts[ChatOf[m]]
    BY <1>1, <2>2 DEF Stores
  <2> QED
    BY <2>2, <2>3, <2>4, GrowsReflexive DEF Grows, SameRows, Exists
<1>3. CASE t = s /\ (ChatOf[m] \in s.known => Time[m] <= s.ts[ChatOf[m]])
  BY <1>3, GrowsReflexive DEF SameRows
<1>4. s.ts[ChatOf[m]] \in Nat
  BY <1>1 DEF Stores
<1>5. t = s \/ (ChatOf[m] \in s.known /\ Time[m] >= s.ts[ChatOf[m]])
  BY DEF UpdateChatLastMessage
<1> QED
  BY <1>1, <1>2, <1>3, <1>4, <1>5 DEF UpdateChatLastMessage

\* SetChatLastTimestamp never takes a timestamp back.
LEMMA SetChatLastTimestampFacts ==
  ASSUME NEW s \in Stores, NEW c \in Chats, NEW n \in Nat
  PROVE  LET t == SetChatLastTimestamp(s, c, n)
         IN  /\ t \in Stores /\ Grows(s, t) /\ SameRows(s, t) /\ t.unread = s.unread
             /\ t.known = s.known
<1> DEFINE t == SetChatLastTimestamp(s, c, n)
<1>1. CASE c \in s.known /\ n >= s.ts[c]
  <2>1. /\ t.status = s.status /\ t.body = s.body /\ t.unread = s.unread /\ t.known = s.known
        /\ t.ts = [s.ts EXCEPT ![c] = n] /\ t \in Stores
    BY <1>1 DEF SetChatLastTimestamp, Stores
  <2>2. \A x \in Chats : s.ts[x] <= t.ts[x]
    BY <1>1, <2>1 DEF Stores
  <2> QED
    BY <2>1, <2>2, GrowsReflexive DEF Grows, SameRows, Exists
<1>2. CASE t = s
  BY <1>2, GrowsReflexive DEF SameRows
<1> QED
  BY <1>1, <1>2 DEF SetChatLastTimestamp

\* The counter's statements change nothing but one chat's counter.
LEMMA CounterFacts ==
  ASSUME NEW s \in Stores, NEW c \in Chats, NEW n \in Nat, NEW t,
         t = SetUnread(s, c, n) \/ (t = IncrementUnread(s, c) /\ n = s.unread[c] + 1)
  PROVE  /\ t \in Stores /\ Grows(s, t) /\ SameRows(s, t) /\ t.known = s.known
         /\ \A x \in Chats \ {c} : t.unread[x] = s.unread[x]
         /\ t.unread[c] = n \/ (c \notin s.known /\ t.unread[c] = s.unread[c])
<1>1. CASE c \in s.known
  <2>1. t = [s EXCEPT !.unread[c] = n]
    BY <1>1 DEF SetUnread, IncrementUnread
  <2>2. /\ t.status = s.status /\ t.body = s.body /\ t.ts = s.ts /\ t.known = s.known
        /\ t.unread = [s.unread EXCEPT ![c] = n] /\ t \in Stores
    BY <2>1 DEF Stores
  <2> QED
    BY <2>2, GrowsReflexive DEF Grows, SameRows, Exists, Stores
<1>2. CASE c \notin s.known
  <2>1. t = s
    BY <1>2 DEF SetUnread, IncrementUnread
  <2> QED
    BY <1>2, <2>1, GrowsReflexive DEF SameRows
<1> QED
  BY <1>1, <1>2

\* A receipt never takes a tick back.
LEMMA SetMessagesStatusFacts ==
  ASSUME NEW s \in Stores, NEW ids \in SUBSET Messages, NEW status \in {"delivered", "read"}
  PROVE  LET t == SetMessagesStatus(s, ids, status)
         IN  /\ t \in Stores /\ Grows(s, t) /\ SameRows(s, t) /\ t.unread = s.unread
             /\ t.known = s.known
<1> DEFINE t == SetMessagesStatus(s, ids, status)
<1>1. s.status \in [Messages -> Statuses] /\ status \in Statuses /\ status # "none"
  BY DEF Stores, Statuses
<1>2. /\ t.body = s.body /\ t.ts = s.ts /\ t.unread = s.unread /\ t.known = s.known
      /\ t \in Stores
  BY <1>1 DEF SetMessagesStatus, Stores
<1>3. \A m \in Messages :
        \/ t.status[m] = s.status[m]
        \/ /\ t.status[m] = status /\ s.status[m] # "none"
           /\ ~(status = "delivered" /\ s.status[m] = "read")
  BY <1>1 DEF SetMessagesStatus, Stores, Exists
<1>4. \A m \in Messages : Rank[s.status[m]] <= Rank[t.status[m]]
  <2> SUFFICES ASSUME NEW m \in Messages PROVE Rank[s.status[m]] <= Rank[t.status[m]]
    OBVIOUS
  <2>1. s.status[m] \in Statuses
    BY <1>1
  <2>2. CASE t.status[m] = s.status[m]
    BY <2>1, <2>2, RankOfRow
  <2>3. CASE t.status[m] = status /\ ~(status = "delivered" /\ s.status[m] = "read")
    BY <2>1, <2>3, Ranks DEF Statuses
  <2> QED
    BY <1>3, <2>2, <2>3
<1>5. SameRows(s, t)
  BY <1>1, <1>3 DEF SameRows, Exists
<1>6. Grows(s, t)
  BY <1>2, <1>4 DEF Grows, Stores
<1> QED
  BY <1>2, <1>5, <1>6

\* An edit or a revocation touches texts alone.
LEMMA TextFacts ==
  ASSUME NEW s \in Stores, NEW ids \in SUBSET Messages, NEW t,
         t = SetMessageEdited(s, ids) \/ t = SetMessageDeleted(s, ids)
  PROVE  /\ t \in Stores /\ Grows(s, t) /\ SameRows(s, t) /\ t.unread = s.unread
         /\ t.known = s.known
<1>1. s.body \in [Messages -> {"original", "edited", "deleted"}]
  BY DEF Stores
<1>2. /\ t.status = s.status /\ t.ts = s.ts /\ t.unread = s.unread /\ t.known = s.known
      /\ t \in Stores
  BY <1>1 DEF SetMessageEdited, SetMessageDeleted, Stores
<1>3. \A m \in Messages : s.body[m] # "original" => t.body[m] # "original"
  BY DEF SetMessageEdited, SetMessageDeleted, Stores
<1> QED
  BY <1>2, <1>3, GrowsReflexive DEF Grows, SameRows, Exists

-----------------------------------------------------------------------------
(* Type correctness                                                        *)

\* The event in the worker's hands fits what the worker is at, and so do the message of
\* message.send and the open transaction.
Hands ==
  /\ worker \notin {"idle", "ended"} => job \in Deliveries
  /\ worker \in MessageSteps => job.kind = "message"
  /\ worker \in HistorySteps => job.kind = "history"
  /\ worker = "replay" => tx \in Stores
  /\ sender # "idle" => sending \in Messages \ Incoming

Typed == TypeOK /\ Hands

\* What a delivery is.
LEMMA DeliveryFacts ==
  ASSUME NEW e \in Deliveries
  PROVE  /\ e.chat \in Chats /\ e.ids \in SUBSET Messages /\ e.unread \in Nat /\ e.ts \in Nat
         /\ e # NoEvent
         /\ e.kind \in {"message", "revoke", "edit", "delivered", "read", "own_read", "history"}
         /\ e.kind = "message" => \E m \in Messages : e.ids = {m} /\ e.chat = ChatOf[m]
         /\ e.kind = "history" => e.unread <= HistoryUnread[e.chat]
BY DeliveriesAssumption DEF Events

\* Initially.
LEMMA InitTyped == Init => Typed
<1> SUFFICES ASSUME Init PROVE Typed
  OBVIOUS
<1>1. EmptyStore \in Stores
  BY DEF EmptyStore, Stores, Statuses
<1>2. MaxEvents \in Nat /\ MaxFaults \in Nat /\ MaxReads \in Nat /\ MaxCloses \in Nat
  BY LimitsAreNatural
<1>3. budget \in [events : Nat, faults : Nat, reads : Nat, closes : Nat]
  BY <1>2 DEF Init, PersisterInit
<1>8. inbox \in Seq(Deliveries)
  BY DEF Init, PersisterInit
<1>4. /\ db \in Stores /\ tx \in Stores \cup {NoTx} /\ inbox \in Seq(Deliveries)
      /\ done \in BOOLEAN /\ worker = "idle" /\ job \in Deliveries \cup {NoEvent}
  BY <1>1, <1>8, Zenon DEF Init, PersisterInit
<1>5. /\ handled = {} /\ accepted = {} /\ todo = {} /\ announced = {} /\ lost = {} /\ torn = {}
      /\ sent = {} /\ sender = "idle" /\ sending = NoMessage /\ reader = "idle"
      /\ reading = {} /\ readChat \in Chats
  BY DEF Init, PersisterInit
<1>6. TypeOK
  BY <1>3, <1>4, <1>5 DEF TypeOK
<1>7. Hands
  BY <1>4, <1>5 DEF Hands, MessageSteps, HistorySteps
<1> QED
  BY <1>6, <1>7 DEF Typed

\* A statement of the worker on a live event.
LEMMA StatementTyped ==
  ASSUME Typed, NEW at \in MessageSteps \cup OtherSteps, NEW s \in Stores,
         NEW next \in {"idle"} \cup MessageSteps \cup OtherSteps,
         next \in MessageSteps => at \in MessageSteps,
         Statement(at, s, next), UNCHANGED methodVars
  PROVE  Typed'
<1>1. worker = at /\ db' = s /\ worker' = next /\ job' = (IF next = "idle" THEN NoEvent ELSE job)
  BY DEF Statement
<1>2. UNCHANGED <<tx, inbox, done, handled, accepted, todo, announced, lost, torn, sent, budget,
                  sender, sending, reader, reading, readChat>>
  BY DEF Statement, queueVars, methodVars
<1>3. TypeOK'
  BY <1>1, <1>2 DEF Typed, TypeOK
<1>4. Hands'
  BY <1>1, <1>2 DEF Typed, Hands, MessageSteps, OtherSteps, HistorySteps
<1> QED
  BY <1>3, <1>4 DEF Typed

\* Everything the worker does with a live event.
LEMMA LiveStepTyped == Typed /\ LiveStep /\ UNCHANGED methodVars => Typed'
<1> SUFFICES ASSUME Typed, LiveStep, UNCHANGED methodVars PROVE Typed'
  OBVIOUS
<1>1. db \in Stores /\ (worker \in MessageSteps \cup OtherSteps => job \in Deliveries)
  BY DEF Typed, TypeOK, Hands, MessageSteps, OtherSteps
<1>2. worker \in MessageSteps \cup OtherSteps => job.chat \in Chats /\ job.ids \in SUBSET Messages
  BY <1>1, DeliveryFacts
<1>3. CASE StoreChat
  <2>1. Statement("chat", UpsertChat(db, job.chat), "insert") /\ worker = "chat"
    BY <1>3 DEF StoreChat, Statement
  <2>2. UpsertChat(db, job.chat) \in Stores
    BY <1>1, <1>2, <2>1, UpsertChatFacts DEF MessageSteps
  <2> QED
    BY <2>1, <2>2, StatementTyped DEF MessageSteps
<1>4. CASE CountUnread
  <2>1. Statement("count", IncrementUnread(db, job.chat), "publish") /\ worker = "count"
    BY <1>4 DEF CountUnread, Statement
  <2>2. IncrementUnread(db, job.chat) \in Stores
    <3>1. job.chat \in Chats /\ db.unread[job.chat] + 1 \in Nat
      BY <1>1, <1>2, <2>1 DEF Stores, MessageSteps
    <3> QED
      BY <1>1, <3>1, CounterFacts
  <2> QED
    BY <2>1, <2>2, StatementTyped DEF MessageSteps
<1>5. CASE PublishMessage
  <2>1. /\ worker = "publish" /\ worker' = "idle" /\ job' = NoEvent
        /\ announced' = announced \cup job.ids
        /\ UNCHANGED <<db, tx, inbox, done, handled, accepted, todo, lost, torn, sent, budget,
                       sender, sending, reader, reading, readChat>>
    BY <1>5 DEF PublishMessage, queueVars, methodVars
  <2>2. job.ids \subseteq Messages
    BY <1>2, <2>1 DEF MessageSteps
  <2>3. TypeOK'
    BY <2>1, <2>2 DEF Typed, TypeOK
  <2>4. Hands'
    BY <2>1 DEF Typed, Hands, MessageSteps, HistorySteps
  <2> QED
    BY <2>3, <2>4 DEF Typed
<1>6. ASSUME NEW m \in Messages, StoreMessage(m) PROVE Typed'
  <2>1. InsertMessage(db, m) \in Stores
    BY <1>1, InsertMessageFacts
  <2>2. \E next \in {"idle", "last"} : Statement("insert", InsertMessage(db, m), next)
    BY <1>6 DEF StoreMessage
  <2> QED
    BY <2>1, <2>2, StatementTyped DEF MessageSteps
<1>7. ASSUME NEW m \in Messages, StoreLast(m) PROVE Typed'
  <2>1. UpdateChatLastMessage(db, m) \in Stores
    BY <1>1, UpdateChatLastMessageFacts
  <2>2. \E next \in {"count", "publish"} : Statement("last", UpdateChatLastMessage(db, m), next)
    BY <1>7 DEF StoreLast
  <2> QED
    BY <2>1, <2>2, StatementTyped DEF MessageSteps
<1>8. CASE RevokeMessage
  <2>1. Statement("revoke", SetMessageDeleted(db, job.ids), "idle") /\ worker = "revoke"
    BY <1>8 DEF RevokeMessage, Statement
  <2>2. SetMessageDeleted(db, job.ids) \in Stores
    BY <1>1, <1>2, <2>1, TextFacts DEF OtherSteps
  <2> QED
    BY <2>1, <2>2, StatementTyped DEF OtherSteps, MessageSteps
<1>9. CASE EditMessage
  <2>1. Statement("edit", SetMessageEdited(db, job.ids), "idle") /\ worker = "edit"
    BY <1>9 DEF EditMessage, Statement
  <2>2. SetMessageEdited(db, job.ids) \in Stores
    BY <1>1, <1>2, <2>1, TextFacts DEF OtherSteps
  <2> QED
    BY <2>1, <2>2, StatementTyped DEF OtherSteps, MessageSteps
<1>10. CASE StoreReceipt
  <2>1. PICK status \in {"delivered", "read"}, next \in {"clear", "idle"} :
          Statement("status", SetMessagesStatus(db, job.ids, status), next) /\ worker = "status"
    BY <1>10 DEF StoreReceipt, Statement
  <2>2. SetMessagesStatus(db, job.ids, status) \in Stores
    BY <1>1, <1>2, <2>1, SetMessagesStatusFacts DEF OtherSteps
  <2> QED
    BY <2>1, <2>2, StatementTyped DEF OtherSteps, MessageSteps
<1>11. CASE ClearUnread
  <2>1. Statement("clear", SetUnread(db, job.chat, 0), "idle") /\ worker = "clear"
    BY <1>11 DEF ClearUnread, Statement, MarkChatRead
  <2>2. SetUnread(db, job.chat, 0) \in Stores
    BY <1>1, <1>2, <2>1, CounterFacts DEF OtherSteps
  <2> QED
    BY <2>1, <2>2, StatementTyped DEF OtherSteps, MessageSteps
<1> QED
  BY <1>3, <1>4, <1>5, <1>6, <1>7, <1>8, <1>9, <1>10, <1>11 DEF LiveStep

\* A replayed message: at most its row, its chat's timestamp and counter are touched.
LEMMA ReplayedFacts ==
  ASSUME NEW s \in Stores, NEW m \in Messages
  PROVE  LET t == Replayed(s, m)
         IN  /\ t \in Stores /\ Grows(s, t)
             /\ \A x \in Messages \ {m} : Exists(t, x) <=> Exists(s, x)
             /\ Exists(t, m) => Exists(s, m) \/ (ChatOf[m] \in s.known /\ Time[m] <= t.ts[ChatOf[m]])
             /\ \/ t = s
                \/ /\ ~Exists(s, m) /\ (Exists(t, m) <=> ChatOf[m] \in s.known)
                   /\ IF m \in Incoming /\ ChatOf[m] \in s.known
                        THEN /\ t.unread[ChatOf[m]] = s.unread[ChatOf[m]] + 1
                             /\ \A c \in Chats \ {ChatOf[m]} : t.unread[c] = s.unread[c]
                        ELSE t.unread = s.unread
<1> DEFINE t == Replayed(s, m)
           i == InsertMessage(s, m)
           l == UpdateChatLastMessage(i, m)
<1>1. CASE Exists(s, m)
  BY <1>1, GrowsReflexive DEF Replayed
<1>2. CASE ~Exists(s, m)
  <2>1. t = IF m \in Incoming THEN IncrementUnread(l, ChatOf[m]) ELSE l
    BY <1>2 DEF Replayed
  <2>2. /\ i \in Stores /\ Grows(s, i) /\ i.unread = s.unread /\ i.known = s.known
        /\ \A x \in Messages \ {m} : Exists(i, x) <=> Exists(s, x)
        /\ Exists(i, m) <=> ChatOf[m] \in s.known
    BY <1>2, InsertMessageFacts
  <2>3. /\ l \in Stores /\ Grows(i, l) /\ SameRows(i, l) /\ l.unread = i.unread
        /\ l.known = i.known
        /\ ChatOf[m] \in i.known => Time[m] <= l.ts[ChatOf[m]]
    BY <2>2, UpdateChatLastMessageFacts
  <2>4. Grows(s, l)
    BY <2>2, <2>3, GrowsTransitive
  <2>5. ChatOf[m] \in Chats /\ Time[m] \in Nat
    BY MessagesAssumption
  <2>6. CASE m \notin Incoming
    BY <1>2, <2>1, <2>2, <2>3, <2>4, <2>6 DEF SameRows
  <2>7. CASE m \in Incoming
    <3>1. t = IncrementUnread(l, ChatOf[m]) /\ l.unread[ChatOf[m]] + 1 \in Nat
      BY <2>1, <2>3, <2>5, <2>7 DEF Stores
    <3>2. /\ t \in Stores /\ Grows(l, t) /\ SameRows(l, t) /\ t.known = l.known
          /\ \A c \in Chats \ {ChatOf[m]} : t.unread[c] = l.unread[c]
          /\ \/ t.unread[ChatOf[m]] = l.unread[ChatOf[m]] + 1
             \/ ChatOf[m] \notin l.known /\ t.unread[ChatOf[m]] = l.unread[ChatOf[m]]
      BY <2>3, <2>5, <3>1, CounterFacts
    <3>3. Grows(s, t)
      BY <2>3, <2>4, <3>2, GrowsTransitive
    <3>4. l.ts[ChatOf[m]] <= t.ts[ChatOf[m]] /\ l.ts[ChatOf[m]] \in Nat /\ t.ts[ChatOf[m]] \in Nat
      BY <2>3, <2>5, <3>2 DEF Grows, Stores
    <3>5. ChatOf[m] \in s.known => Time[m] <= t.ts[ChatOf[m]]
      BY <2>2, <2>3, <2>5, <3>4
    <3>6. \A x \in Messages : Exists(t, x) <=> Exists(i, x)
      BY <2>3, <3>2 DEF SameRows
    <3>7. CASE ChatOf[m] \in s.known
      BY <1>2, <2>2, <2>3, <2>7, <3>2, <3>3, <3>5, <3>6, <3>7
    <3>8. CASE ChatOf[m] \notin s.known
      <4>1. t = l
        BY <2>2, <2>3, <3>1, <3>8 DEF IncrementUnread
      <4> QED
        BY <1>2, <2>2, <2>3, <3>3, <3>6, <3>8, <4>1
    <3> QED
      BY <3>7, <3>8
  <2> QED
    BY <2>6, <2>7
<1> QED
  BY <1>1, <1>2

\* An item of a batch is a message, an edit or revocation of one, or nothing.
LEMMA ReplayCases ==
  ASSUME NEW m \in Messages, ReplayMessage(m)
  PROVE  \/ tx' = tx
         \/ tx' = Replayed(tx, m)
         \/ \E ids \in SUBSET Messages :
              tx' = SetMessageEdited(tx, ids) \/ tx' = SetMessageDeleted(tx, ids)
BY DEF ReplayMessage

\* What a history transaction does.
LEMMA HistoryStepTyped == Typed /\ HistoryStep /\ UNCHANGED methodVars => Typed'
<1> SUFFICES ASSUME Typed, HistoryStep, UNCHANGED methodVars PROVE Typed'
  OBVIOUS
<1>1. db \in Stores /\ (worker \in HistorySteps => job \in Deliveries)
  BY DEF Typed, TypeOK, Hands, HistorySteps
<1>2. worker \in HistorySteps =>
        /\ job.chat \in Chats /\ job.ids \in SUBSET Messages /\ job.unread \in Nat /\ job.ts \in Nat
  BY <1>1, DeliveryFacts
<1>3. CASE BeginConversation
  <2>1. /\ worker = "begin" /\ tx' = UpsertChat(db, job.chat) /\ todo' = job.ids
        /\ worker' \in {"replay", "stuck"}
        /\ UNCHANGED <<db, inbox, done, handled, accepted, job, announced, lost, torn, sent, budget,
                       sender, sending, reader, reading, readChat>>
    BY <1>3 DEF BeginConversation, queueVars, methodVars
  <2>2. tx' \in Stores /\ todo' \subseteq Messages
    BY <1>1, <1>2, <2>1, UpsertChatFacts DEF HistorySteps
  <2>3. TypeOK'
    BY <2>1, <2>2 DEF Typed, TypeOK, HistorySteps
  <2>4. Hands'
    BY <2>1, <2>2 DEF Typed, Hands, MessageSteps, HistorySteps
  <2> QED
    BY <2>3, <2>4 DEF Typed
<1>4. ASSUME NEW m \in Messages, ReplayMessage(m) PROVE Typed'
  <2>1. /\ worker = "replay" /\ todo' = todo \ {m}
        /\ UNCHANGED <<db, inbox, done, handled, accepted, worker, job, announced, lost, torn, sent,
                       budget, sender, sending, reader, reading, readChat>>
    BY <1>4 DEF ReplayMessage, queueVars, methodVars
  <2>2. tx \in Stores
    BY <2>1 DEF Typed, Hands
  <2>3. tx' \in Stores
    BY <1>4, <2>2, ReplayCases, ReplayedFacts, TextFacts
  <2>4. TypeOK'
    BY <2>1, <2>3 DEF Typed, TypeOK
  <2>5. Hands'
    BY <2>1, <2>3 DEF Typed, Hands
  <2> QED
    BY <2>4, <2>5 DEF Typed
<1>5. CASE LookupInTransaction
  <2>1. /\ worker = "replay" /\ worker' = "stuck"
        /\ UNCHANGED <<db, tx, inbox, done, handled, accepted, job, todo, announced, lost, torn, sent,
                       budget, sender, sending, reader, reading, readChat>>
    BY <1>5 DEF LookupInTransaction, queueVars, methodVars
  <2>2. TypeOK'
    BY <2>1 DEF Typed, TypeOK, HistorySteps
  <2>3. Hands'
    BY <2>1 DEF Typed, Hands, MessageSteps, HistorySteps
  <2> QED
    BY <2>2, <2>3 DEF Typed
<1>6. CASE CommitConversation
  <2>1. /\ worker = "replay" /\ worker' = "idle" /\ tx' = NoTx /\ job' = NoEvent
        /\ db' = SetUnread(SetChatLastTimestamp(tx, job.chat, job.ts), job.chat, job.unread)
        /\ UNCHANGED <<inbox, done, handled, accepted, todo, announced, lost, torn, sent,
                       budget, sender, sending, reader, reading, readChat>>
    BY <1>6 DEF CommitConversation, queueVars, methodVars
  <2>2. db' \in Stores
    BY <1>2, <2>1, SetChatLastTimestampFacts, CounterFacts DEF Typed, Hands, HistorySteps
  <2>3. TypeOK'
    BY <2>1, <2>2 DEF Typed, TypeOK
  <2>4. Hands'
    BY <2>1 DEF Typed, Hands, MessageSteps, HistorySteps
  <2> QED
    BY <2>3, <2>4 DEF Typed
<1> QED
  BY <1>3, <1>4, <1>5, <1>6 DEF HistoryStep

\* The two sides of the queue, and Close.
LEMMA QueueTyped ==
  /\ Typed /\ (Take \/ EndWorker) /\ UNCHANGED methodVars => Typed'
  /\ \A e \in Deliveries : Typed /\ handleEvent(e) /\ UNCHANGED methodVars => Typed'
  /\ Typed /\ Close /\ UNCHANGED methodVars => Typed'
<1>1. ASSUME Typed, Take, UNCHANGED methodVars PROVE Typed'
  <2>1. /\ inbox # <<>> /\ job' = Head(inbox) /\ inbox' = Tail(inbox)
        /\ worker' = FirstStep[Head(inbox).kind]
        /\ UNCHANGED <<db, tx, done, handled, accepted, todo, announced, lost, torn, sent, budget,
                       sender, sending, reader, reading, readChat>>
    BY <1>1 DEF Take, methodVars
  <2>2. Head(inbox) \in Deliveries /\ Tail(inbox) \in Seq(Deliveries)
    BY <1>1, <2>1 DEF Typed, TypeOK
  <2>3. /\ job' \in Deliveries
        /\ \/ job'.kind = "message" /\ worker' = "chat"
           \/ job'.kind = "history" /\ worker' = "begin"
           \/ worker' \in {"revoke", "edit", "status"}
    BY <2>1, <2>2, DeliveryFacts DEF FirstStep
  <2>4. TypeOK'
    BY <1>1, <2>1, <2>2, <2>3 DEF Typed, TypeOK, MessageSteps, OtherSteps, HistorySteps
  <2>5. Hands'
    BY <1>1, <2>1, <2>3 DEF Typed, Hands, MessageSteps, HistorySteps
  <2> QED
    BY <2>4, <2>5 DEF Typed
<1>2. ASSUME Typed, EndWorker, UNCHANGED methodVars PROVE Typed'
  <2>1. /\ worker' = "ended"
        /\ UNCHANGED <<db, tx, inbox, done, handled, accepted, job, todo, announced, lost, torn,
                       sent, budget, sender, sending, reader, reading, readChat>>
    BY <1>2 DEF EndWorker, queueVars, methodVars
  <2>2. TypeOK' /\ Hands'
    BY <1>2, <2>1 DEF Typed, TypeOK, Hands, MessageSteps, HistorySteps
  <2> QED
    BY <2>2 DEF Typed
<1>3. ASSUME Typed, NEW e \in Deliveries, handleEvent(e), UNCHANGED methodVars PROVE Typed'
  <2>1. /\ UNCHANGED <<db, tx, done, worker, job, todo, announced, lost, torn,
                       sender, sending, reader, reading, readChat>>
        /\ inbox' \in {inbox, Append(inbox, e)}
        /\ budget' = [budget EXCEPT !.events = @ - 1] /\ budget.events > 0
    BY <1>3 DEF handleEvent, workVars, methodVars
  <2>2. /\ handled' = (IF e.kind = "message" THEN handled \cup e.ids ELSE handled)
        /\ accepted' = accepted \/ (accepted' = accepted \cup e.ids /\ e.kind = "message")
        /\ sent' = sent \cup (e.ids \ Incoming)
    BY <1>3 DEF handleEvent
  <2>3. e.ids \subseteq Messages
    BY DeliveryFacts
  <2>4. handled' \subseteq Messages /\ accepted' \subseteq handled' /\ sent' \subseteq Messages \ Incoming
    BY <1>3, <2>2, <2>3 DEF Typed, TypeOK
  <2>5. budget' \in [events : Nat, faults : Nat, reads : Nat, closes : Nat]
    BY <1>3, <2>1 DEF Typed, TypeOK
  <2>6. inbox' \in Seq(Deliveries)
    <3>1. inbox \in Seq(Deliveries)
      BY <1>3 DEF Typed, TypeOK
    <3>2. Append(inbox, e) \in Seq(Deliveries)
      BY <3>1
    <3> QED
      BY <2>1, <3>1, <3>2
  <2>7. TypeOK' /\ Hands'
    BY <1>3, <2>1, <2>4, <2>5, <2>6 DEF Typed, TypeOK, Hands
  <2> QED
    BY <2>7 DEF Typed
<1>4. ASSUME Typed, Close, UNCHANGED methodVars PROVE Typed'
  <2>1. /\ UNCHANGED <<db, tx, inbox, handled, accepted, worker, job, todo, announced, lost, torn,
                       sent, sender, sending, reader, reading, readChat>>
        /\ done' = TRUE
        /\ budget' = [budget EXCEPT !.closes = @ - 1] /\ budget.closes > 0
    BY <1>4 DEF Close, workVars, methodVars
  <2>2. budget' \in [events : Nat, faults : Nat, reads : Nat, closes : Nat]
    BY <1>4, <2>1 DEF Typed, TypeOK
  <2>3. TypeOK' /\ Hands'
    BY <1>4, <2>1, <2>2 DEF Typed, TypeOK, Hands
  <2> QED
    BY <2>3 DEF Typed
<1> QED
  BY <1>1, <1>2, <1>3, <1>4

\* The message in the worker's hands is a set of messages.
LEMMA HandsOnMessages ==
  Typed => MessagesOf(job) \subseteq Messages /\ (worker = "last" => job.ids \subseteq Messages)
BY DeliveryFacts DEF Typed, TypeOK, Hands, MessagesOf

\* A failed statement, and a crash.
LEMMA FaultTyped ==
  /\ Typed /\ FailStatement /\ UNCHANGED methodVars => Typed'
  /\ Typed /\ Crash => Typed'
<1>1. ASSUME Typed, FailStatement, UNCHANGED methodVars PROVE Typed'
  <2>1. /\ UNCHANGED <<db, inbox, done, handled, accepted, announced, sent,
                       sender, sending, reader, reading, readChat>>
        /\ tx' = NoTx /\ todo' = {} /\ worker' = "idle" /\ job' = NoEvent
        /\ lost' = lost \cup MessagesOf(job) /\ torn' = torn \cup TornByWorker
        /\ budget' = [budget EXCEPT !.faults = @ - 1] /\ budget.faults > 0
    BY <1>1 DEF FailStatement, queueVars, methodVars
  <2>2. budget' \in [events : Nat, faults : Nat, reads : Nat, closes : Nat]
    BY <1>1, <2>1 DEF Typed, TypeOK
  <2>3. lost' \subseteq Messages /\ torn' \subseteq Messages
    BY <1>1, <2>1, HandsOnMessages DEF TornByWorker, Typed, TypeOK
  <2>4. TypeOK'
    BY <1>1, <2>1, <2>2, <2>3 DEF Typed, TypeOK
  <2>5. Hands'
    BY <1>1, <2>1 DEF Typed, Hands, MessageSteps, HistorySteps
  <2> QED
    BY <2>4, <2>5 DEF Typed
<1>2. ASSUME Typed, Crash PROVE Typed'
  <2>1. /\ UNCHANGED <<db, handled, accepted, announced, sent, readChat>>
        /\ tx' = NoTx /\ inbox' = <<>> /\ done' = FALSE /\ todo' = {}
        /\ worker' = "idle" /\ job' = NoEvent
        /\ lost' = lost \cup UNION {MessagesOf(e) : e \in {inbox[i] : i \in DOMAIN inbox} \cup {job}}
        /\ torn' = torn \cup TornByWorker \cup TornBySender
        /\ sender' = "idle" /\ sending' = NoMessage /\ reader' = "idle" /\ reading' = {}
        /\ budget' = [budget EXCEPT !.faults = @ - 1] /\ budget.faults > 0
    BY <1>2 DEF Crash
  <2>2. budget' \in [events : Nat, faults : Nat, reads : Nat, closes : Nat]
    BY <1>2, <2>1 DEF Typed, TypeOK
  <2>3. \A e \in {inbox[i] : i \in DOMAIN inbox} : MessagesOf(e) \subseteq Messages
    <3>1. \A i \in DOMAIN inbox : inbox[i] \in Deliveries
      BY <1>2 DEF Typed, TypeOK
    <3> QED
      BY <3>1, DeliveryFacts DEF MessagesOf
  <2>4. lost' \subseteq Messages
    BY <1>2, <2>1, <2>3, HandsOnMessages DEF Typed, TypeOK
  <2>5. torn' \subseteq Messages
    BY <1>2, <2>1, HandsOnMessages DEF TornByWorker, TornBySender, Typed, TypeOK, Hands
  <2>6. inbox' \in Seq(Deliveries)
    BY <2>1
  <2>7. TypeOK'
    BY <1>2, <2>1, <2>2, <2>4, <2>5, <2>6 DEF Typed, TypeOK
  <2>8. Hands'
    BY <1>2, <2>1 DEF Typed, Hands, MessageSteps, HistorySteps
  <2> QED
    BY <2>7, <2>8 DEF Typed
<1> QED
  BY <1>1, <1>2

\* A statement of a method, made or failed.
LEMMA MethodStatementFacts ==
  ASSUME Typed, NEW s \in Stores, MethodStatement(s)
  PROVE  /\ tx = NoTx
         /\ db' \in Stores
         /\ budget' \in [events : Nat, faults : Nat, reads : Nat, closes : Nat]
         /\ (db' = s /\ budget' = budget) \/ (db' = db /\ budget' # budget)
<1>1. /\ tx = NoTx
      /\ \/ db' = s /\ budget' = budget
         \/ db' = db /\ budget.faults > 0 /\ budget' = [budget EXCEPT !.faults = @ - 1]
  BY DEF MethodStatement, ConnectionFree
<1>2. budget \in [events : Nat, faults : Nat, reads : Nat, closes : Nat] /\ db \in Stores
  BY DEF Typed, TypeOK
<1>3. ASSUME budget.faults > 0, budget' = [budget EXCEPT !.faults = @ - 1]
      PROVE  /\ budget' \in [events : Nat, faults : Nat, reads : Nat, closes : Nat]
             /\ budget'.faults # budget.faults
  BY <1>2, <1>3
<1> QED
  BY <1>1, <1>2, <1>3

\* A statement of message.send.
LEMMA SendStatementTyped ==
  ASSUME Typed, NEW at \in {"chat", "insert", "last"}, NEW s \in Stores,
         NEW next \in {"insert", "last", "idle"}, SendStatement(at, s, next),
         \/ UNCHANGED <<sending, torn>>
         \/ /\ next = "idle" /\ sending' = NoMessage
            /\ torn' = torn \/ torn' = torn \cup {sending}
  PROVE  Typed'
<1>1. /\ sender = at /\ MethodStatement(s) /\ sender' = next
      /\ UNCHANGED <<tx, inbox, done, handled, accepted, worker, job, todo, announced, lost,
                     sent, reader, reading, readChat>>
  BY DEF SendStatement, queueVars
<1>2. sending \in Messages \ Incoming
  BY <1>1 DEF Typed, Hands
<1>3. db' \in Stores /\ budget' \in [events : Nat, faults : Nat, reads : Nat, closes : Nat]
  BY <1>1, MethodStatementFacts
<1>4. TypeOK'
  BY <1>1, <1>2, <1>3 DEF Typed, TypeOK
<1>5. Hands'
  BY <1>1, <1>2 DEF Typed, Hands
<1> QED
  BY <1>4, <1>5 DEF Typed

\* A statement of message.read.
LEMMA ReadStatementTyped ==
  ASSUME Typed, NEW at, NEW s \in Stores, NEW next \in {"clear", "idle"},
         ReadStatement(at, s, next), reading' = reading \/ reading' = {}
  PROVE  Typed'
<1>1. /\ MethodStatement(s) /\ reader' = next
      /\ UNCHANGED <<tx, inbox, done, handled, accepted, worker, job, todo, announced, lost,
                     torn, sent, sender, sending, readChat>>
  BY DEF ReadStatement, queueVars, workVars
<1>2. db' \in Stores /\ budget' \in [events : Nat, faults : Nat, reads : Nat, closes : Nat]
  BY <1>1, MethodStatementFacts
<1>3. TypeOK' /\ Hands'
  BY <1>1, <1>2 DEF Typed, TypeOK, Hands
<1> QED
  BY <1>3 DEF Typed

\* message.send.
LEMMA SendTyped ==
  /\ \A m \in Messages : Typed /\ SendMessage(m) => Typed'
  /\ Typed /\ StoreOutgoing => Typed'
<1>1. ASSUME Typed, NEW m \in Messages, SendMessage(m) PROVE Typed'
  <2>1. /\ m \in Messages \ Incoming /\ sent' = sent \cup {m} /\ sending' = m /\ sender' = "chat"
        /\ UNCHANGED <<db, tx, inbox, done, handled, accepted, worker, job, todo, announced, lost,
                       torn, budget, reader, reading, readChat>>
    BY <1>1 DEF SendMessage, queueVars, workVars
  <2>2. TypeOK' /\ Hands'
    BY <1>1, <2>1 DEF Typed, TypeOK, Hands
  <2> QED
    BY <2>2 DEF Typed
<1>2. ASSUME Typed, StoreOutgoing PROVE Typed'
  <2>1. db \in Stores
    BY <1>2 DEF Typed, TypeOK
  <2>2. CASE /\ SendStatement("chat", UpsertChat(db, ChatOf[sending]), "insert")
             /\ UNCHANGED <<sending, torn>>
    <3>1. UpsertChat(db, ChatOf[sending]) \in Stores
      BY <1>2, <2>1, <2>2, UpsertChatFacts, MessagesAssumption DEF SendStatement, Typed, Hands
    <3> QED
      BY <1>2, <2>2, <3>1, SendStatementTyped
  <2>3. CASE /\ SendStatement("insert", InsertMessage(db, sending), "last")
             /\ UNCHANGED <<sending, torn>>
    <3>1. InsertMessage(db, sending) \in Stores
      BY <1>2, <2>1, <2>3, InsertMessageFacts DEF SendStatement, Typed, Hands
    <3> QED
      BY <1>2, <2>3, <3>1, SendStatementTyped
  <2>4. CASE /\ SendStatement("last", UpdateChatLastMessage(db, sending), "idle")
             /\ sending' = NoMessage
             /\ torn' = IF budget' = budget THEN torn ELSE torn \cup {sending}
    <3>1. UpdateChatLastMessage(db, sending) \in Stores
      BY <1>2, <2>1, <2>4, UpdateChatLastMessageFacts DEF SendStatement, Typed, Hands
    <3> QED
      BY <1>2, <2>4, <3>1, SendStatementTyped
  <2> QED
    BY <1>2, <2>2, <2>3, <2>4 DEF StoreOutgoing
<1> QED
  BY <1>1, <1>2

\* message.read.
LEMMA ReadTyped ==
  /\ \A c \in Chats : Typed /\ (ReadNothing(c) \/ CollectPending(c)) => Typed'
  /\ Typed /\ (MarkRead \/ FinishRead) => Typed'
<1>1. ASSUME Typed, NEW c \in Chats, ReadNothing(c) PROVE Typed'
  <2>1. /\ budget.reads > 0 /\ budget' = [budget EXCEPT !.reads = @ - 1]
        /\ UNCHANGED <<db, tx, inbox, done, handled, accepted, worker, job, todo, announced, lost,
                       torn, sent, sender, sending, reader, reading, readChat>>
    BY <1>1 DEF ReadNothing, queueVars, workVars, methodVars
  <2>2. budget' \in [events : Nat, faults : Nat, reads : Nat, closes : Nat]
    BY <1>1, <2>1 DEF Typed, TypeOK
  <2>3. TypeOK' /\ Hands'
    BY <1>1, <2>1, <2>2 DEF Typed, TypeOK, Hands
  <2> QED
    BY <2>3 DEF Typed
<1>2. ASSUME Typed, NEW c \in Chats, CollectPending(c) PROVE Typed'
  <2>1. /\ budget.reads > 0 /\ budget' = [budget EXCEPT !.reads = @ - 1]
        /\ reading' = PendingIncomingMessages(db, c) /\ readChat' = c /\ reader' = "network"
        /\ UNCHANGED <<db, tx, inbox, done, handled, accepted, worker, job, todo, announced, lost,
                       torn, sent, sender, sending>>
    BY <1>2 DEF CollectPending, queueVars, workVars
  <2>2. budget' \in [events : Nat, faults : Nat, reads : Nat, closes : Nat]
    BY <1>2, <2>1 DEF Typed, TypeOK
  <2>3. reading' \subseteq Incoming
    BY <2>1 DEF PendingIncomingMessages
  <2>4. TypeOK' /\ Hands'
    BY <1>2, <2>1, <2>2, <2>3 DEF Typed, TypeOK, Hands
  <2> QED
    BY <2>4 DEF Typed
<1>3. ASSUME Typed, MarkRead PROVE Typed'
  <2>1. /\ reader' \in {"status", "idle"} /\ reading' \in {reading, {}}
        /\ UNCHANGED <<db, tx, inbox, done, handled, accepted, worker, job, todo, announced, lost,
                       torn, sent, budget, sender, sending, readChat>>
    BY <1>3 DEF MarkRead, persisterVars, queueVars, workVars
  <2>2. TypeOK' /\ Hands'
    BY <1>3, <2>1 DEF Typed, TypeOK, Hands
  <2> QED
    BY <2>2 DEF Typed
<1>4. ASSUME Typed, FinishRead PROVE Typed'
  <2>1. db \in Stores /\ reading \in SUBSET Messages /\ readChat \in Chats
    BY <1>4, MessagesAssumption DEF Typed, TypeOK
  <2>2. CASE ReadStatement("status", SetMessagesStatus(db, reading, "read"), "clear") /\ UNCHANGED reading
    BY <1>4, <2>1, <2>2, SetMessagesStatusFacts, ReadStatementTyped
  <2>3. CASE ReadStatement("clear", SetUnread(db, readChat, 0), "idle") /\ reading' = {}
    BY <1>4, <2>1, <2>3, CounterFacts, ReadStatementTyped
  <2> QED
    BY <1>4, <2>2, <2>3 DEF FinishRead, MarkChatRead
<1> QED
  BY <1>1, <1>2, <1>3, <1>4

\* Every step keeps the types.
LEMMA NextTyped == Typed /\ [Next]_vars => Typed'
<1>1. Typed /\ UNCHANGED vars => Typed'
  BY DEF vars, persisterVars, queueVars, workVars, methodVars, Typed, TypeOK, Hands
<1>2. Typed /\ Next => Typed'
  BY LiveStepTyped, HistoryStepTyped, QueueTyped, FaultTyped, SendTyped, ReadTyped
     DEF Next, WorkerStep
<1> QED
  BY <1>1, <1>2

\* Every variable of the persistence worker and of the methods keeps its type.
THEOREM TypeCorrect == Spec => []TypeOK
<1>1. Typed => TypeOK
  BY DEF Typed
<1> QED
  BY <1>1, InitTyped, NextTyped, PTL DEF Spec

-----------------------------------------------------------------------------
(* Rows, chats and what is published                                       *)

Linked(s) == \A m \in Messages : Exists(s, m) => ChatOf[m] \in s.known

Dated(s, m) == Time[m] <= s.ts[ChatOf[m]]

\* What the worker relies on at a step, of the store and of what is published.
Ready(step, s) ==
  /\ step = "insert" => job.chat \in s.known
  /\ step \in {"last", "count", "publish"} => \A m \in job.ids : Exists(s, m) /\ m \notin announced
  /\ step \in {"count", "publish"} => \A m \in job.ids : Dated(s, m)

BySender(m) == sender = "last" /\ sending = m

\* What a history transaction will commit.
TxConsistent ==
  tx # NoTx =>
    /\ worker \in {"replay", "stuck"} /\ Grows(db, tx) /\ Linked(tx)
    /\ \A m \in Messages : Exists(tx, m) => Dated(tx, m) \/ m \in torn \/ BySender(m)

Consistent ==
  Linked(db) /\ NewestIsLast /\ PublishedIsPersisted /\ Ready(worker, db) /\ TxConsistent

\* What growth carries over.
LEMMA Carried ==
  ASSUME NEW s \in Stores, NEW t \in Stores, Grows(s, t)
  PROVE  /\ \A m \in Messages : Exists(s, m) => Exists(t, m)
         /\ \A m \in Messages : Dated(s, m) => Dated(t, m)
         /\ \A c \in Chats : c \in s.known => c \in t.known
         /\ Linked(s) /\ SameRows(s, t) => Linked(t)
<1>1. \A m \in Messages : Exists(s, m) => Exists(t, m)
  BY GrowsKeepsRows
<1>2. \A m \in Messages : Dated(s, m) => Dated(t, m)
  <2> SUFFICES ASSUME NEW m \in Messages, Dated(s, m) PROVE Dated(t, m)
    OBVIOUS
  <2>1. /\ Time[m] \in Nat /\ ChatOf[m] \in Chats
        /\ s.ts[ChatOf[m]] \in Nat /\ t.ts[ChatOf[m]] \in Nat
    BY MessagesAssumption DEF Stores
  <2> QED
    BY <2>1 DEF Dated, Grows
<1>3. \A c \in Chats : c \in s.known => c \in t.known
  BY DEF Grows
<1>4. Linked(s) /\ SameRows(s, t) => Linked(t)
  BY <1>3, MessagesAssumption DEF Linked, SameRows
<1> QED
  BY <1>1, <1>2, <1>3, <1>4

\* Initially.
LEMMA InitConsistent == Init => Consistent
<1> SUFFICES ASSUME Init PROVE Consistent
  OBVIOUS
<1>1. db = EmptyStore /\ tx = NoTx /\ worker = "idle" /\ announced = {}
  BY DEF Init, PersisterInit
<1>2. \A m \in Messages : ~Exists(db, m)
  BY <1>1 DEF EmptyStore, Exists
<1> QED
  BY <1>1, <1>2 DEF Consistent, Linked, NewestIsLast, PublishedIsPersisted, Ready, TxConsistent

\* A growing store keeps what was published.
LEMMA PublishedKept ==
  ASSUME Typed, NEW t \in Stores, Grows(db, t), PublishedIsPersisted, db' = t, announced' = announced
  PROVE  PublishedIsPersisted'
<1>1. db \in Stores /\ announced \subseteq Messages
  BY DEF Typed, TypeOK
<1>2. \A m \in announced : Exists(t, m) /\ Dated(t, m) /\ ChatOf[m] \in t.known
  BY <1>1, Carried, MessagesAssumption DEF PublishedIsPersisted, Dated
<1> QED
  BY <1>2 DEF PublishedIsPersisted, Dated

\* A statement of the worker whose store is in order for the next step.
LEMMA StatementConsistent ==
  ASSUME Typed, Consistent, NEW at, NEW s \in Stores, NEW next, Statement(at, s, next),
         UNCHANGED methodVars, Grows(db, s), Linked(s), next # "idle" => Ready(next, s),
         \A m \in Messages :
           Exists(s, m) => \/ Dated(s, m) \/ m \in torn \/ BySender(m)
                           \/ next = "last" /\ job.ids = {m}
  PROVE  Consistent'
<1>1. /\ tx = NoTx /\ tx' = NoTx /\ db' = s /\ worker' = next
      /\ job' = (IF next = "idle" THEN NoEvent ELSE job)
      /\ UNCHANGED <<announced, torn, sender, sending>>
  BY DEF Statement, ConnectionFree, methodVars
<1>2. Linked(db)'
  BY <1>1 DEF Linked, Exists
<1>3. NewestIsLast'
  BY <1>1 DEF NewestIsLast, BetweenRowAndChat, Dated, BySender, Exists
<1>4. PublishedIsPersisted'
  BY <1>1, PublishedKept DEF Consistent
<1>5. Ready(worker, db)'
  BY <1>1 DEF Ready, Exists, Dated
<1> QED
  BY <1>1, <1>2, <1>3, <1>4, <1>5 DEF Consistent, TxConsistent

\* A statement of the worker that adds no row, after the chat's last message is written.
LEMMA QuietStatement ==
  ASSUME Typed, Consistent, NEW at, at # "last", NEW s \in Stores, NEW next, next # "last",
         Statement(at, s, next), UNCHANGED methodVars,
         Grows(db, s), SameRows(db, s), next # "idle" => Ready(next, s)
  PROVE  Consistent'
<1>1. db \in Stores /\ worker = at
  BY DEF Typed, TypeOK, Statement
<1>2. Linked(s)
  BY <1>1, Carried DEF Consistent
<1>3. \A m \in Messages : Exists(s, m) => Dated(s, m) \/ m \in torn \/ BySender(m)
  BY <1>1, Carried DEF Consistent, NewestIsLast, BetweenRowAndChat, Dated, BySender, SameRows
<1> QED
  BY <1>2, <1>3, StatementConsistent

\* Everything the worker does with a live event.
LEMMA LiveStepConsistent ==
  Typed /\ Consistent /\ LiveStep /\ UNCHANGED methodVars => Consistent'
<1> SUFFICES ASSUME Typed, Consistent, LiveStep, UNCHANGED methodVars PROVE Consistent'
  OBVIOUS
<1>1. db \in Stores /\ (worker \in MessageSteps \cup OtherSteps => job \in Deliveries)
  BY DEF Typed, TypeOK, Hands, MessageSteps, OtherSteps
<1>2. worker \in MessageSteps \cup OtherSteps => job.chat \in Chats /\ job.ids \in SUBSET Messages
  BY <1>1, DeliveryFacts
<1>3. \A m \in Messages : worker \in MessageSteps /\ job.ids = {m} => job.chat = ChatOf[m]
  BY <1>1, DeliveryFacts DEF Typed, Hands, MessageSteps
<1>4. CASE StoreChat
  <2>1. Statement("chat", UpsertChat(db, job.chat), "insert") /\ worker = "chat"
    BY <1>4 DEF StoreChat, Statement
  <2>2. /\ UpsertChat(db, job.chat) \in Stores /\ Grows(db, UpsertChat(db, job.chat))
        /\ SameRows(db, UpsertChat(db, job.chat))
        /\ job.chat \in UpsertChat(db, job.chat).known
    BY <1>1, <1>2, <2>1, UpsertChatFacts DEF MessageSteps
  <2>3. Ready("insert", UpsertChat(db, job.chat))
    BY <2>2 DEF Ready
  <2> QED
    BY <2>1, <2>2, <2>3, QuietStatement
<1>5. CASE CountUnread
  <2> DEFINE s == IncrementUnread(db, job.chat)
  <2>1. Statement("count", s, "publish") /\ worker = "count"
    BY <1>5 DEF CountUnread, Statement
  <2>2. job.chat \in Chats /\ db.unread[job.chat] + 1 \in Nat /\ job.ids \in SUBSET Messages
    BY <1>1, <1>2, <2>1 DEF Stores, MessageSteps
  <2>3. s \in Stores /\ Grows(db, s) /\ SameRows(db, s)
    BY <1>1, <2>2, CounterFacts
  <2>4. Ready("publish", s)
    BY <1>1, <2>1, <2>2, <2>3, Carried DEF Ready, Consistent
  <2> QED
    BY <2>1, <2>3, <2>4, QuietStatement
<1>6. CASE PublishMessage
  <2>1. /\ worker = "publish" /\ worker' = "idle" /\ announced' = announced \cup job.ids
        /\ UNCHANGED <<db, tx, torn, sender, sending>>
    BY <1>6 DEF PublishMessage, methodVars
  <2>2. \A m \in job.ids : Exists(db, m) /\ Dated(db, m) /\ m \in Messages
    BY <1>2, <2>1 DEF Consistent, Ready, MessageSteps
  <2>3. PublishedIsPersisted'
    BY <2>1, <2>2 DEF Consistent, PublishedIsPersisted, Linked, Dated, Exists
  <2>4. Linked(db)' /\ NewestIsLast' /\ Ready(worker, db)'
    BY <2>1 DEF Consistent, Linked, NewestIsLast, BetweenRowAndChat, Ready, Exists
  <2>5. TxConsistent'
    BY <2>1 DEF Consistent, TxConsistent
  <2> QED
    BY <2>3, <2>4, <2>5 DEF Consistent
<1>7. ASSUME NEW m \in Messages, StoreMessage(m) PROVE Consistent'
  <2> DEFINE s == InsertMessage(db, m)
             next == IF Exists(db, m) THEN "idle" ELSE "last"
  <2>1. Statement("insert", s, next) /\ worker = "insert" /\ job.ids = {m}
    BY <1>7 DEF StoreMessage
  <2>2. ChatOf[m] \in db.known
    BY <1>3, <2>1 DEF Consistent, Ready, MessageSteps
  <2>3. /\ s \in Stores /\ Grows(db, s) /\ s.known = db.known /\ Exists(s, m)
        /\ \A x \in Messages \ {m} : Exists(s, x) <=> Exists(db, x)
    BY <1>1, <2>2, InsertMessageFacts
  <2>4. Linked(s)
    BY <2>2, <2>3 DEF Consistent, Linked
  <2>5. \A x \in Messages : Exists(db, x) => Dated(s, x) \/ x \in torn \/ BySender(x)
    BY <1>1, <2>1, <2>3, Carried DEF Consistent, NewestIsLast, BetweenRowAndChat, Dated, BySender
  <2>6. \A x \in Messages :
          Exists(s, x) => Dated(s, x) \/ x \in torn \/ BySender(x) \/ (next = "last" /\ job.ids = {x})
    BY <2>1, <2>3, <2>5
  <2>7. next # "idle" => Ready(next, s)
    BY <2>1, <2>3 DEF Ready, Consistent, PublishedIsPersisted
  <2> HIDE DEF s, next
  <2> QED
    BY <2>1, <2>3, <2>4, <2>6, <2>7, StatementConsistent
<1>8. ASSUME NEW m \in Messages, StoreLast(m) PROVE Consistent'
  <2> DEFINE s == UpdateChatLastMessage(db, m)
             next == IF m \in Incoming THEN "count" ELSE "publish"
  <2>1. Statement("last", s, next) /\ worker = "last" /\ job.ids = {m}
    BY <1>8 DEF StoreLast
  <2>2. Exists(db, m) /\ m \notin announced /\ ChatOf[m] \in db.known
    BY <2>1 DEF Consistent, Ready, Linked
  <2>3. s \in Stores /\ Grows(db, s) /\ SameRows(db, s) /\ Dated(s, m)
    BY <1>1, <2>2, UpdateChatLastMessageFacts DEF Dated
  <2>4. Linked(s)
    BY <1>1, <2>3, Carried DEF Consistent
  <2>5. \A x \in Messages : Exists(s, x) => Dated(s, x) \/ x \in torn \/ BySender(x)
    BY <1>1, <2>1, <2>3, Carried
       DEF Consistent, NewestIsLast, BetweenRowAndChat, Dated, BySender, SameRows
  <2>6. Ready(next, s)
    BY <2>1, <2>2, <2>3 DEF Ready, SameRows
  <2> HIDE DEF s, next
  <2> QED
    BY <2>1, <2>3, <2>4, <2>5, <2>6, StatementConsistent
<1>9. CASE RevokeMessage \/ EditMessage
  <2>1. PICK at \in {"revoke", "edit"} :
          /\ worker = at
          /\ \/ Statement(at, SetMessageDeleted(db, job.ids), "idle")
             \/ Statement(at, SetMessageEdited(db, job.ids), "idle")
    BY <1>9 DEF RevokeMessage, EditMessage, Statement
  <2>2. job.ids \in SUBSET Messages
    BY <1>2, <2>1 DEF OtherSteps
  <2>3. \A s \in {SetMessageDeleted(db, job.ids), SetMessageEdited(db, job.ids)} :
          s \in Stores /\ Grows(db, s) /\ SameRows(db, s)
    BY <1>1, <2>2, TextFacts
  <2> QED
    BY <2>1, <2>3, QuietStatement
<1>10. CASE StoreReceipt
  <2>1. PICK status \in {"delivered", "read"}, next \in {"clear", "idle"} :
          Statement("status", SetMessagesStatus(db, job.ids, status), next) /\ worker = "status"
    BY <1>10 DEF StoreReceipt, Statement
  <2>2. /\ SetMessagesStatus(db, job.ids, status) \in Stores
        /\ Grows(db, SetMessagesStatus(db, job.ids, status))
        /\ SameRows(db, SetMessagesStatus(db, job.ids, status))
    BY <1>1, <1>2, <2>1, SetMessagesStatusFacts DEF OtherSteps
  <2>3. Ready(next, SetMessagesStatus(db, job.ids, status))
    BY DEF Ready
  <2> QED
    BY <2>1, <2>2, <2>3, QuietStatement
<1>11. CASE ClearUnread
  <2>1. Statement("clear", SetUnread(db, job.chat, 0), "idle") /\ worker = "clear"
    BY <1>11 DEF ClearUnread, Statement, MarkChatRead
  <2>2. /\ SetUnread(db, job.chat, 0) \in Stores /\ Grows(db, SetUnread(db, job.chat, 0))
        /\ SameRows(db, SetUnread(db, job.chat, 0))
    BY <1>1, <1>2, <2>1, CounterFacts DEF OtherSteps
  <2> QED
    BY <2>1, <2>2, QuietStatement
<1> QED
  BY <1>4, <1>5, <1>6, <1>7, <1>8, <1>9, <1>10, <1>11 DEF LiveStep

\* What a history transaction does.
LEMMA HistoryStepConsistent ==
  Typed /\ Consistent /\ HistoryStep /\ UNCHANGED methodVars => Consistent'
<1> SUFFICES ASSUME Typed, Consistent, HistoryStep, UNCHANGED methodVars PROVE Consistent'
  OBVIOUS
<1>1. db \in Stores /\ (worker \in HistorySteps => job \in Deliveries)
  BY DEF Typed, TypeOK, Hands, HistorySteps
<1>2. worker \in HistorySteps =>
        job.chat \in Chats /\ job.ids \in SUBSET Messages /\ job.unread \in Nat /\ job.ts \in Nat
  BY <1>1, DeliveryFacts
<1>3. CASE BeginConversation
  <2>1. /\ worker = "begin" /\ tx' = UpsertChat(db, job.chat) /\ worker' \in {"replay", "stuck"}
        /\ UNCHANGED <<db, job, announced, torn, sender, sending>>
    BY <1>3 DEF BeginConversation, methodVars
  <2>2. tx' \in Stores /\ Grows(db, tx') /\ SameRows(db, tx')
    BY <1>1, <1>2, <2>1, UpsertChatFacts DEF HistorySteps
  <2>3. Linked(tx')
    BY <1>1, <2>2, Carried DEF Consistent
  <2>4. \A m \in Messages : Exists(tx', m) => Dated(tx', m) \/ m \in torn \/ BySender(m)
    BY <1>1, <2>1, <2>2, Carried DEF Consistent, NewestIsLast, BetweenRowAndChat, Dated, BySender, SameRows
  <2>5. TxConsistent'
    BY <2>1, <2>2, <2>3, <2>4 DEF TxConsistent, Grows, Linked, Dated, BySender, Exists
  <2>6. Linked(db)' /\ NewestIsLast' /\ PublishedIsPersisted' /\ Ready(worker, db)'
    BY <2>1 DEF Consistent, Linked, NewestIsLast, BetweenRowAndChat, PublishedIsPersisted, Ready, Exists
  <2> QED
    BY <2>5, <2>6 DEF Consistent
<1>4. ASSUME NEW m \in Messages, ReplayMessage(m) PROVE Consistent'
  <2>1. /\ worker = "replay"
        /\ UNCHANGED <<db, worker, job, announced, torn, sender, sending>>
    BY <1>4 DEF ReplayMessage, methodVars
  <2>2. tx \in Stores /\ tx # NoTx
    BY <2>1, DeliveriesAssumption DEF Typed, Hands
  <2>3. /\ Grows(db, tx) /\ Linked(tx)
        /\ \A x \in Messages : Exists(tx, x) => Dated(tx, x) \/ x \in torn \/ BySender(x)
    BY <2>2 DEF Consistent, TxConsistent
  <2> DEFINE Follows(t) ==
        /\ t \in Stores /\ Grows(tx, t)
        /\ \A x \in Messages \ {m} : Exists(t, x) <=> Exists(tx, x)
        /\ Exists(t, m) => Exists(tx, m) \/ (ChatOf[m] \in tx.known /\ Dated(t, m))
  <2>4. Follows(tx')
    <3>1. Follows(tx)
      BY <2>2, GrowsReflexive
    <3>2. Follows(Replayed(tx, m))
      BY <2>2, ReplayedFacts DEF Dated
    <3>3. ASSUME NEW ids \in SUBSET Messages, NEW t,
                 t = SetMessageEdited(tx, ids) \/ t = SetMessageDeleted(tx, ids)
          PROVE  Follows(t)
      BY <2>2, <3>3, TextFacts DEF SameRows
    <3> HIDE DEF Follows
    <3> QED
      BY <1>4, <3>1, <3>2, <3>3, ReplayCases
  <2>5. Grows(db, tx')
    BY <1>1, <2>2, <2>3, <2>4, GrowsTransitive
  <2>6. Linked(tx')
    BY <2>2, <2>3, <2>4, Carried, MessagesAssumption DEF Linked
  <2>7. \A x \in Messages : Exists(tx', x) => Dated(tx', x) \/ x \in torn \/ BySender(x)
    BY <2>2, <2>3, <2>4, Carried
  <2>8. TxConsistent'
    BY <2>1, <2>5, <2>6, <2>7 DEF TxConsistent, Grows, Linked, Dated, BySender, Exists
  <2>9. Linked(db)' /\ NewestIsLast' /\ PublishedIsPersisted' /\ Ready(worker, db)'
    BY <2>1 DEF Consistent, Linked, NewestIsLast, BetweenRowAndChat, PublishedIsPersisted, Ready, Exists
  <2> QED
    BY <2>8, <2>9 DEF Consistent
<1>5. CASE LookupInTransaction
  <2>1. /\ worker = "replay" /\ worker' = "stuck"
        /\ UNCHANGED <<db, tx, job, announced, torn, sender, sending>>
    BY <1>5 DEF LookupInTransaction, methodVars
  <2>2. TxConsistent'
    BY <2>1 DEF Consistent, TxConsistent, Grows, Linked, Dated, BySender, Exists
  <2>3. Linked(db)' /\ NewestIsLast' /\ PublishedIsPersisted' /\ Ready(worker, db)'
    BY <2>1 DEF Consistent, Linked, NewestIsLast, BetweenRowAndChat, PublishedIsPersisted, Ready, Exists
  <2> QED
    BY <2>2, <2>3 DEF Consistent
<1>6. CASE CommitConversation
  <2> DEFINE i == SetChatLastTimestamp(tx, job.chat, job.ts)
             s == SetUnread(i, job.chat, job.unread)
  <2>1. /\ worker = "replay" /\ worker' = "idle" /\ tx' = NoTx /\ db' = s
        /\ UNCHANGED <<announced, torn, sender, sending>>
    BY <1>6 DEF CommitConversation, methodVars
  <2>2. tx \in Stores /\ tx # NoTx
    BY <2>1, DeliveriesAssumption DEF Typed, Hands
  <2>3. /\ Grows(db, tx) /\ Linked(tx)
        /\ \A x \in Messages : Exists(tx, x) => Dated(tx, x) \/ x \in torn \/ BySender(x)
    BY <2>2 DEF Consistent, TxConsistent
  <2>4. i \in Stores /\ Grows(tx, i) /\ SameRows(tx, i)
    BY <1>2, <2>1, <2>2, SetChatLastTimestampFacts DEF HistorySteps
  <2>5. s \in Stores /\ Grows(i, s) /\ SameRows(i, s)
    BY <1>2, <2>1, <2>4, CounterFacts DEF HistorySteps
  <2>6. Grows(tx, s) /\ SameRows(tx, s)
    BY <2>2, <2>4, <2>5, GrowsTransitive DEF SameRows
  <2>7. Grows(db, s)
    BY <1>1, <2>2, <2>3, <2>5, <2>6, GrowsTransitive
  <2>8. Linked(s)
    BY <2>2, <2>3, <2>5, <2>6, Carried
  <2>9. \A x \in Messages : Exists(s, x) => Dated(s, x) \/ x \in torn \/ BySender(x)
    BY <2>2, <2>3, <2>5, <2>6, Carried DEF SameRows
  <2> HIDE DEF s
  <2>10. Linked(db)' /\ NewestIsLast'
    BY <2>1, <2>8, <2>9 DEF Linked, NewestIsLast, BetweenRowAndChat, Dated, BySender, Exists
  <2>11. PublishedIsPersisted'
    BY <2>1, <2>5, <2>7, PublishedKept DEF Consistent
  <2>12. Ready(worker, db)' /\ TxConsistent'
    BY <2>1 DEF Ready, TxConsistent
  <2> QED
    BY <2>10, <2>11, <2>12 DEF Consistent
<1> QED
  BY <1>3, <1>4, <1>5, <1>6 DEF HistoryStep

\* Steps that leave tables and publications alone.
LEMMA OutsideConsistent ==
  ASSUME Typed, Consistent, UNCHANGED <<db, tx, announced, torn>>,
         \/ UNCHANGED <<worker, job>>
         \/ worker = "idle" /\ worker' \notin MessageSteps \ {"chat"},
         UNCHANGED <<sender, sending>> \/ (sender = "idle" /\ sender' # "last")
  PROVE  Consistent'
<1>1. Linked(db)' /\ PublishedIsPersisted'
  BY DEF Consistent, Linked, PublishedIsPersisted, Exists
<1>2. NewestIsLast'
  BY DEF Consistent, NewestIsLast, BetweenRowAndChat, Exists
<1>3. Ready(worker, db)'
  BY DEF Consistent, Ready, Exists, Dated, MessageSteps
<1>4. TxConsistent'
  BY DEF Consistent, TxConsistent, Grows, Linked, Dated, BySender, Exists
<1> QED
  BY <1>1, <1>2, <1>3, <1>4 DEF Consistent

\* The two sides of the queue, Close, and the steps of the methods that write nothing.
LEMMA OutsideSteps ==
  /\ Typed /\ Consistent /\ (Take \/ EndWorker \/ Close) /\ UNCHANGED methodVars => Consistent'
  /\ \A e \in Deliveries :
       Typed /\ Consistent /\ handleEvent(e) /\ UNCHANGED methodVars => Consistent'
  /\ \A m \in Messages : Typed /\ Consistent /\ SendMessage(m) => Consistent'
  /\ \A c \in Chats : Typed /\ Consistent /\ (ReadNothing(c) \/ CollectPending(c)) => Consistent'
  /\ Typed /\ Consistent /\ MarkRead => Consistent'
<1>1. ASSUME Typed, Consistent, Take, UNCHANGED methodVars PROVE Consistent'
  <2>1. /\ worker = "idle" /\ inbox # <<>> /\ worker' = FirstStep[Head(inbox).kind]
        /\ UNCHANGED <<db, tx, announced, torn, sender, sending>>
    BY <1>1 DEF Take, methodVars
  <2>2. Head(inbox) \in Deliveries
    BY <1>1, <2>1 DEF Typed, TypeOK
  <2>3. worker' \in {"chat", "begin", "revoke", "edit", "status"}
    BY <2>1, <2>2, DeliveryFacts DEF FirstStep
  <2>4. worker' \notin MessageSteps \ {"chat"}
    BY <2>3 DEF MessageSteps
  <2> QED
    BY <1>1, <2>1, <2>4, OutsideConsistent
<1>2. ASSUME Typed, Consistent, EndWorker, UNCHANGED methodVars PROVE Consistent'
  BY <1>2, OutsideConsistent DEF EndWorker, methodVars, MessageSteps
<1>3. ASSUME Typed, Consistent, Close, UNCHANGED methodVars PROVE Consistent'
  BY <1>3, OutsideConsistent DEF Close, workVars, methodVars
<1>4. ASSUME Typed, Consistent, NEW e \in Deliveries, handleEvent(e), UNCHANGED methodVars
      PROVE  Consistent'
  BY <1>4, OutsideConsistent DEF handleEvent, workVars, methodVars
<1>5. ASSUME Typed, Consistent, NEW m \in Messages, SendMessage(m) PROVE Consistent'
  BY <1>5, OutsideConsistent DEF SendMessage, workVars
<1>6. ASSUME Typed, Consistent, NEW c \in Chats, ReadNothing(c) \/ CollectPending(c) PROVE Consistent'
  BY <1>6, OutsideConsistent DEF ReadNothing, CollectPending, workVars, methodVars
<1>7. ASSUME Typed, Consistent, MarkRead PROVE Consistent'
  BY <1>7, OutsideConsistent DEF MarkRead, persisterVars, workVars
<1> QED
  BY <1>1, <1>2, <1>3, <1>4, <1>5, <1>6, <1>7

\* A fault leaves the tables, and marks the message whose row has no chat's entry yet.
LEMMA FaultConsistent ==
  /\ Typed /\ Consistent /\ FailStatement /\ UNCHANGED methodVars => Consistent'
  /\ Typed /\ Consistent /\ Crash => Consistent'
<1>1. ASSUME Typed, Consistent, FailStatement, UNCHANGED methodVars PROVE Consistent'
  <2>1. /\ UNCHANGED <<db, announced, sender, sending>> /\ tx' = NoTx /\ worker' = "idle"
        /\ torn' = torn \cup TornByWorker
    BY <1>1 DEF FailStatement, methodVars
  <2>2. NewestIsLast'
    BY <1>1, <2>1 DEF Consistent, NewestIsLast, BetweenRowAndChat, TornByWorker, Exists
  <2>3. Linked(db)' /\ PublishedIsPersisted' /\ Ready(worker, db)' /\ TxConsistent'
    BY <1>1, <2>1 DEF Consistent, Linked, PublishedIsPersisted, Ready, TxConsistent, Exists
  <2> QED
    BY <2>2, <2>3 DEF Consistent
<1>2. ASSUME Typed, Consistent, Crash PROVE Consistent'
  <2>1. /\ UNCHANGED <<db, announced>> /\ tx' = NoTx /\ worker' = "idle" /\ sender' = "idle"
        /\ torn' = torn \cup TornByWorker \cup TornBySender
    BY <1>2 DEF Crash
  <2>2. NewestIsLast'
    BY <1>2, <2>1
       DEF Consistent, NewestIsLast, BetweenRowAndChat, TornByWorker, TornBySender, Exists
  <2>3. Linked(db)' /\ PublishedIsPersisted' /\ Ready(worker, db)' /\ TxConsistent'
    BY <1>2, <2>1 DEF Consistent, Linked, PublishedIsPersisted, Ready, TxConsistent, Exists
  <2> QED
    BY <2>2, <2>3 DEF Consistent
<1> QED
  BY <1>1, <1>2

\* A method's statement, made or failed, that leaves the store t in order.
LEMMA MethodConsistent ==
  ASSUME Typed, Consistent, NEW t \in Stores, db' = t, UNCHANGED <<tx, worker, job, announced>>,
         tx = NoTx, Grows(db, t), Linked(t),
         \A m \in Messages :
           Exists(t, m) => \/ Dated(t, m) \/ m \in torn' \/ (sender' = "last" /\ sending' = m)
                           \/ (worker = "last" /\ job.ids = {m})
  PROVE  Consistent'
<1>1. db \in Stores /\ (worker \in MessageSteps => job.ids \in SUBSET Messages)
      /\ (worker = "insert" => job.chat \in Chats)
  BY DeliveryFacts DEF Typed, TypeOK, Hands, MessageSteps
<1>2. Linked(db)'
  BY DEF Linked, Exists
<1>3. NewestIsLast'
  BY DEF NewestIsLast, BetweenRowAndChat, Dated, Exists
<1>4. PublishedIsPersisted'
  BY <1>1, PublishedKept DEF Consistent
<1>5. Ready(worker, t)
  BY <1>1, Carried DEF Consistent, Ready, MessageSteps
<1>6. Ready(worker, db)'
  BY <1>5 DEF Ready, Exists, Dated
<1> QED
  BY <1>2, <1>3, <1>4, <1>6 DEF Consistent, TxConsistent

\* A method's statement leaves the store it makes, or the store as it was.
LEMMA MethodOutcome ==
  ASSUME Typed, Consistent, NEW s \in Stores, MethodStatement(s), Grows(db, s), Linked(s)
  PROVE  \E t \in Stores :
           /\ db' = t /\ tx = NoTx /\ Grows(db, t) /\ Linked(t)
           /\ (t = s /\ budget' = budget) \/ (t = db /\ budget' # budget)
<1>1. db \in Stores /\ Grows(db, db) /\ Linked(db)
  BY GrowsReflexive DEF Typed, TypeOK, Consistent
<1>2. tx = NoTx /\ ((db' = s /\ budget' = budget) \/ (db' = db /\ budget' # budget))
  BY MethodStatementFacts
<1> QED
  BY <1>1, <1>2

\* A store in which the rows of db are dated, or excused as in NewestIsLast.
LEMMA NewestCarried ==
  ASSUME Typed, Consistent, NEW t \in Stores, Grows(db, t)
  PROVE  \A m \in Messages :
           Exists(db, m) => Dated(t, m) \/ m \in torn \/ BySender(m) \/ (worker = "last" /\ job.ids = {m})
<1>1. db \in Stores
  BY DEF Typed, TypeOK
<1>2. \A m \in Messages : Dated(db, m) => Dated(t, m)
  BY <1>1, Carried
<1> QED
  BY <1>2 DEF Consistent, NewestIsLast, BetweenRowAndChat, BySender, Dated

\* message.send.
LEMMA StoreOutgoingConsistent == Typed /\ Consistent /\ StoreOutgoing => Consistent'
<1> SUFFICES ASSUME Typed, Consistent, StoreOutgoing PROVE Consistent'
  OBVIOUS
<1>1. db \in Stores /\ sending \in Messages /\ ChatOf[sending] \in Chats
  BY MessagesAssumption DEF StoreOutgoing, SendStatement, Typed, TypeOK, Hands
<1>2. CASE /\ SendStatement("chat", UpsertChat(db, ChatOf[sending]), "insert")
           /\ UNCHANGED <<sending, torn>>
  <2> DEFINE s == UpsertChat(db, ChatOf[sending])
  <2>1. s \in Stores /\ Grows(db, s) /\ SameRows(db, s) /\ Linked(s)
    BY <1>1, UpsertChatFacts, Carried DEF Consistent
  <2>2. MethodStatement(s) /\ sender = "chat" /\ UNCHANGED <<tx, worker, job, announced>>
    BY <1>2 DEF SendStatement
  <2>3. PICK t \in Stores : /\ db' = t /\ tx = NoTx /\ Grows(db, t) /\ Linked(t)
                            /\ (t = s /\ budget' = budget) \/ (t = db /\ budget' # budget)
    BY <2>1, <2>2, MethodOutcome
  <2>4. \A x \in Messages : Exists(t, x) => Exists(db, x)
    BY <2>1, <2>3 DEF SameRows
  <2>5. \A x \in Messages :
          Exists(t, x) => \/ Dated(t, x) \/ x \in torn' \/ (sender' = "last" /\ sending' = x)
                          \/ (worker = "last" /\ job.ids = {x})
    BY <1>2, <2>2, <2>3, <2>4, NewestCarried DEF BySender
  <2> QED
    BY <2>2, <2>3, <2>5, MethodConsistent
<1>3. CASE /\ SendStatement("insert", InsertMessage(db, sending), "last")
           /\ UNCHANGED <<sending, torn>>
  <2> DEFINE s == InsertMessage(db, sending)
  <2>1. /\ s \in Stores /\ Grows(db, s) /\ s.known = db.known
        /\ \A x \in Messages \ {sending} : Exists(s, x) <=> Exists(db, x)
        /\ Exists(s, sending) => Exists(db, sending) \/ ChatOf[sending] \in db.known
    BY <1>1, InsertMessageFacts
  <2>2. Linked(s)
    BY <2>1 DEF Consistent, Linked
  <2>3. /\ MethodStatement(s) /\ sender = "insert" /\ sender' = "last"
        /\ UNCHANGED <<tx, worker, job, announced>>
    BY <1>3 DEF SendStatement
  <2>4. PICK t \in Stores : /\ db' = t /\ tx = NoTx /\ Grows(db, t) /\ Linked(t)
                            /\ (t = s /\ budget' = budget) \/ (t = db /\ budget' # budget)
    BY <2>1, <2>2, <2>3, MethodOutcome
  <2>5. \A x \in Messages : Exists(t, x) => Exists(db, x) \/ x = sending
    BY <2>1, <2>4
  <2>6. \A x \in Messages :
          Exists(t, x) => \/ Dated(t, x) \/ x \in torn' \/ (sender' = "last" /\ sending' = x)
                          \/ (worker = "last" /\ job.ids = {x})
    BY <1>3, <2>3, <2>4, <2>5, NewestCarried DEF BySender
  <2> QED
    BY <2>3, <2>4, <2>6, MethodConsistent
<1>4. CASE /\ SendStatement("last", UpdateChatLastMessage(db, sending), "idle")
           /\ sending' = NoMessage
           /\ torn' = IF budget' = budget THEN torn ELSE torn \cup {sending}
  <2> DEFINE s == UpdateChatLastMessage(db, sending)
  <2>1. /\ s \in Stores /\ Grows(db, s) /\ SameRows(db, s)
        /\ ChatOf[sending] \in db.known => Dated(s, sending)
    BY <1>1, UpdateChatLastMessageFacts DEF Dated
  <2>2. Linked(s)
    BY <1>1, <2>1, Carried DEF Consistent
  <2>3. MethodStatement(s) /\ UNCHANGED <<tx, worker, job, announced>>
    BY <1>4 DEF SendStatement
  <2>4. PICK t \in Stores : /\ db' = t /\ tx = NoTx /\ Grows(db, t) /\ Linked(t)
                            /\ (t = s /\ budget' = budget) \/ (t = db /\ budget' # budget)
    BY <2>1, <2>2, <2>3, MethodOutcome
  <2>5. \A x \in Messages : Exists(t, x) => Exists(db, x)
    BY <2>1, <2>4 DEF SameRows
  <2>6. Exists(db, sending) => Dated(t, sending) \/ sending \in torn'
    BY <1>1, <1>4, <2>1, <2>4 DEF Consistent, Linked
  <2>7. torn \subseteq torn'
    BY <1>4
  <2>8. \A x \in Messages :
          Exists(t, x) => \/ Dated(t, x) \/ x \in torn' \/ (sender' = "last" /\ sending' = x)
                          \/ (worker = "last" /\ job.ids = {x})
    BY <2>4, <2>5, <2>6, <2>7, NewestCarried DEF BySender
  <2> QED
    BY <2>3, <2>4, <2>8, MethodConsistent
<1> QED
  BY <1>2, <1>3, <1>4 DEF StoreOutgoing

\* message.read.
LEMMA FinishReadConsistent == Typed /\ Consistent /\ FinishRead => Consistent'
<1> SUFFICES ASSUME Typed, Consistent, FinishRead PROVE Consistent'
  OBVIOUS
<1>1. db \in Stores /\ reading \in SUBSET Messages /\ readChat \in Chats
  BY MessagesAssumption DEF Typed, TypeOK
<1>2. ASSUME NEW s \in Stores, NEW at, NEW next, ReadStatement(at, s, next),
             Grows(db, s), SameRows(db, s)
      PROVE  Consistent'
  <2>1. MethodStatement(s) /\ UNCHANGED <<tx, worker, job, announced, torn, sender, sending>>
    BY <1>2 DEF ReadStatement, workVars
  <2>2. Linked(s)
    BY <1>1, <1>2, Carried DEF Consistent
  <2>3. PICK t \in Stores : /\ db' = t /\ tx = NoTx /\ Grows(db, t) /\ Linked(t)
                            /\ (t = s /\ budget' = budget) \/ (t = db /\ budget' # budget)
    BY <1>2, <2>1, <2>2, MethodOutcome
  <2>4. \A x \in Messages : Exists(t, x) => Exists(db, x)
    BY <1>2, <2>3 DEF SameRows
  <2>5. \A x \in Messages :
          Exists(t, x) => \/ Dated(t, x) \/ x \in torn' \/ (sender' = "last" /\ sending' = x)
                          \/ (worker = "last" /\ job.ids = {x})
    BY <2>1, <2>3, <2>4, NewestCarried DEF BySender
  <2> QED
    BY <2>1, <2>3, <2>5, MethodConsistent
<1>3. CASE ReadStatement("status", SetMessagesStatus(db, reading, "read"), "clear")
  BY <1>1, <1>2, <1>3, SetMessagesStatusFacts
<1>4. CASE ReadStatement("clear", SetUnread(db, readChat, 0), "idle")
  BY <1>1, <1>2, <1>4, CounterFacts
<1> QED
  BY <1>3, <1>4 DEF FinishRead, MarkChatRead

\* Every step keeps the tables, the chats and what is published consistent.
LEMMA NextConsistent == Typed /\ Consistent /\ [Next]_vars => Consistent'
<1>1. ASSUME Typed, Consistent, UNCHANGED vars PROVE Consistent'
  <2>1. UNCHANGED <<db, tx, announced, torn, worker, job, sender, sending>>
    BY <1>1 DEF vars, persisterVars, workVars, methodVars
  <2> QED
    BY <1>1, <2>1, OutsideConsistent
<1>2. Typed /\ Consistent /\ Next => Consistent'
  BY LiveStepConsistent, HistoryStepConsistent, OutsideSteps, FaultConsistent,
     StoreOutgoingConsistent, FinishReadConsistent DEF Next, WorkerStep
<1> QED
  BY <1>1, <1>2

\* Types and consistency together are inductive.
LEMMA ConsistentAlways == Spec => [](Typed /\ Consistent)
BY InitTyped, InitConsistent, NextTyped, NextConsistent, PTL DEF Spec

\* No stored message is newer than its chat's timestamp, but for those whose handler is
\* between its two statements or was cut off there.
THEOREM NewestCorrect == Spec => []NewestIsLast
<1>1. Consistent => NewestIsLast
  BY DEF Consistent
<1> QED
  BY <1>1, ConsistentAlways, PTL

\* What is published as message.received is in the tables, and stays there.
THEOREM PublishedCorrect == Spec => []PublishedIsPersisted
<1>1. Consistent => PublishedIsPersisted
  BY DEF Consistent
<1> QED
  BY <1>1, ConsistentAlways, PTL

\* No message is published as message.received twice.
THEOREM AnnouncedCorrect == Spec => AnnouncedOnce
<1>1. Consistent /\ [Next]_vars => [PublishMessage => job.ids \cap announced = {}]_vars
  BY DEF Consistent, Ready, PublishMessage
<1> QED
  BY <1>1, ConsistentAlways, PTL DEF Spec, AnnouncedOnce

-----------------------------------------------------------------------------
(* No committed store ever goes back                                       *)

\* Whatever is committed is a store grown from the one before.
LEMMA StoreGrows == Typed /\ Consistent /\ [Next]_vars => Grows(db, db')
<1> SUFFICES ASSUME Typed, Consistent, [Next]_vars PROVE Grows(db, db')
  OBVIOUS
<1>1. /\ db \in Stores /\ Grows(db, db)
      /\ worker \in MessageSteps \cup OtherSteps \cup HistorySteps => job \in Deliveries
      /\ \A m \in Messages : ChatOf[m] \in Chats
  BY GrowsReflexive, MessagesAssumption
     DEF Typed, TypeOK, Hands, MessageSteps, OtherSteps, HistorySteps
<1>2. worker \in MessageSteps \cup OtherSteps \cup HistorySteps =>
        /\ job.chat \in Chats /\ job.ids \in SUBSET Messages
        /\ job.unread \in Nat /\ job.ts \in Nat
  BY <1>1, DeliveryFacts
<1>3. CASE UNCHANGED db
  BY <1>1, <1>3
<1>4. CASE LiveStep
  <2>1. CASE StoreChat
    BY <1>1, <1>2, <2>1, UpsertChatFacts DEF StoreChat, Statement, MessageSteps
  <2>2. CASE CountUnread
    <3>1. worker = "count" /\ db' = IncrementUnread(db, job.chat)
      BY <2>2 DEF CountUnread, Statement
    <3>2. job.chat \in Chats /\ db.unread[job.chat] + 1 \in Nat
      BY <1>1, <1>2, <3>1 DEF Stores, MessageSteps
    <3> QED
      BY <1>1, <3>1, <3>2, CounterFacts
  <2>3. CASE PublishMessage
    BY <1>1, <2>3 DEF PublishMessage
  <2>4. CASE \E m \in Messages : StoreMessage(m) \/ StoreLast(m)
    BY <1>1, <2>4, InsertMessageFacts, UpdateChatLastMessageFacts
       DEF StoreMessage, StoreLast, Statement
  <2>5. CASE RevokeMessage \/ EditMessage
    <3>1. /\ job.ids \in SUBSET Messages
          /\ db' = SetMessageEdited(db, job.ids) \/ db' = SetMessageDeleted(db, job.ids)
      BY <1>2, <2>5 DEF RevokeMessage, EditMessage, Statement, OtherSteps
    <3> QED
      BY <1>1, <3>1, TextFacts
  <2>6. CASE StoreReceipt
    <3>1. /\ job.ids \in SUBSET Messages
          /\ db' = SetMessagesStatus(db, job.ids, IF job.kind = "delivered" THEN "delivered" ELSE "read")
      BY <1>2, <2>6 DEF StoreReceipt, Statement, OtherSteps
    <3>2. (IF job.kind = "delivered" THEN "delivered" ELSE "read") \in {"delivered", "read"}
      OBVIOUS
    <3> QED
      BY <1>1, <3>1, <3>2, SetMessagesStatusFacts
  <2>7. CASE ClearUnread
    <3>1. job.chat \in Chats /\ db' = SetUnread(db, job.chat, 0)
      BY <1>2, <2>7 DEF ClearUnread, Statement, MarkChatRead, OtherSteps
    <3> QED
      BY <1>1, <3>1, CounterFacts
  <2> QED
    BY <1>4, <2>1, <2>2, <2>3, <2>4, <2>5, <2>6, <2>7 DEF LiveStep
<1>5. CASE CommitConversation
  <2> DEFINE i == SetChatLastTimestamp(tx, job.chat, job.ts)
  <2>1. /\ worker = "replay" /\ db' = SetUnread(i, job.chat, job.unread)
    BY <1>5 DEF CommitConversation
  <2>2. tx \in Stores /\ Grows(db, tx)
    BY <2>1, DeliveriesAssumption DEF Typed, Hands, Consistent, TxConsistent
  <2>3. job.chat \in Chats /\ job.unread \in Nat /\ job.ts \in Nat
    BY <1>2, <2>1 DEF HistorySteps
  <2>4. i \in Stores /\ Grows(tx, i)
    BY <2>2, <2>3, SetChatLastTimestampFacts
  <2>5. db' \in Stores /\ Grows(i, db')
    BY <2>1, <2>3, <2>4, CounterFacts
  <2> QED
    BY <1>1, <2>2, <2>4, <2>5, GrowsTransitive
<1>6. ASSUME NEW s \in Stores, MethodStatement(s), Grows(db, s) PROVE Grows(db, db')
  BY <1>1, <1>6 DEF MethodStatement
<1>7. CASE StoreOutgoing
  <2>1. sending \in Messages
    BY <1>7 DEF StoreOutgoing, SendStatement, Typed, Hands
  <2>2. \E s \in {UpsertChat(db, ChatOf[sending]), InsertMessage(db, sending),
                  UpdateChatLastMessage(db, sending)} : MethodStatement(s)
    BY <1>7 DEF StoreOutgoing, SendStatement
  <2> QED
    BY <1>1, <1>6, <2>1, <2>2, UpsertChatFacts, InsertMessageFacts, UpdateChatLastMessageFacts
<1>8. CASE FinishRead
  <2>1. reading \in SUBSET Messages /\ readChat \in Chats
    BY MessagesAssumption DEF Typed, TypeOK
  <2>2. \E s \in {SetMessagesStatus(db, reading, "read"), SetUnread(db, readChat, 0)} :
          MethodStatement(s)
    BY <1>8 DEF FinishRead, ReadStatement, MarkChatRead
  <2>3. CASE MethodStatement(SetMessagesStatus(db, reading, "read"))
    BY <1>1, <1>6, <2>1, <2>3, SetMessagesStatusFacts
  <2>4. CASE MethodStatement(SetUnread(db, readChat, 0))
    BY <1>1, <1>6, <2>1, <2>4, CounterFacts
  <2> QED
    BY <2>2, <2>3, <2>4
<1>9. CASE HistoryStep
  BY <1>3, <1>5, <1>9 DEF HistoryStep, BeginConversation, ReplayMessage, LookupInTransaction
<1>10. CASE \/ \E e \in Deliveries : handleEvent(e)
            \/ Close \/ Take \/ EndWorker \/ FailStatement \/ MarkRead \/ Crash
            \/ \E m \in Messages : SendMessage(m)
            \/ \E c \in Chats : ReadNothing(c) \/ CollectPending(c)
  BY <1>3, <1>10 DEF handleEvent, Close, Take, EndWorker, FailStatement, MarkRead, Crash,
                     SendMessage, ReadNothing, CollectPending, persisterVars
<1>11. CASE UNCHANGED vars
  BY <1>3, <1>11 DEF vars, persisterVars
<1> QED
  BY <1>4, <1>7, <1>8, <1>9, <1>10, <1>11 DEF Next, WorkerStep

\* A message's ticks never go back.
THEOREM StatusCorrect == Spec => StatusAdvances
<1>1. Typed /\ Consistent /\ [Next]_vars =>
        [\A m \in Messages : Rank[db.status[m]] <= Rank[db'.status[m]]]_vars
  BY StoreGrows DEF Grows
<1> QED
  BY <1>1, ConsistentAlways, PTL DEF Spec, StatusAdvances

\* An edited or revoked text never becomes the original again.
THEOREM EditsCorrect == Spec => EditsSurvive
<1>1. Typed /\ Consistent /\ [Next]_vars =>
        [\A m \in Messages : db.body[m] # "original" => db'.body[m] # "original"]_vars
  BY StoreGrows DEF Grows
<1> QED
  BY <1>1, ConsistentAlways, PTL DEF Spec, EditsSurvive

-----------------------------------------------------------------------------
(* The unread counter                                                      *)

IncomingRows(s, c) == {m \in Incoming : ChatOf[m] = c /\ Exists(s, m)}

\* The counter of c in s, with n increments under way.
Badge(s, c, n) == s.unread[c] + n <= HistoryUnread[c] + Cardinality(IncomingRows(s, c))

\* The increment that the worker still has to make for a row it has stored.
Owed(c) ==
  IF worker \in {"last", "count"} /\ job.ids \subseteq Incoming /\ job.chat = c THEN 1 ELSE 0

Counted ==
  /\ \A c \in Chats : Badge(db, c, Owed(c))
  /\ tx # NoTx => \A c \in Chats : Badge(tx, c, 0)
  /\ worker = "count" => job.ids \subseteq Incoming

SameIncoming(s, t) == \A m \in Incoming : Exists(t, m) <=> Exists(s, m)

\* The numbers in a badge.
LEMMA BadgeTyped ==
  ASSUME NEW s \in Stores, NEW c \in Chats
  PROVE  /\ IsFiniteSet(IncomingRows(s, c)) /\ Cardinality(IncomingRows(s, c)) \in Nat
         /\ s.unread[c] \in Nat /\ HistoryUnread[c] \in Nat /\ Owed(c) \in {0, 1}
<1>1. IncomingRows(s, c) \in SUBSET Messages /\ IsFiniteSet(Messages)
  BY MessagesAssumption DEF IncomingRows
<1>2. IsFiniteSet(IncomingRows(s, c))
  BY <1>1, FS_Subset
<1>3. s.unread[c] \in Nat /\ HistoryUnread[c] \in Nat
  BY DeliveriesAssumption DEF Stores
<1> QED
  BY <1>2, <1>3, FS_CardinalityType DEF Owed

\* Without new incoming rows, a counter that does not rise stays within its limit.
LEMMA BadgeKept ==
  ASSUME NEW s \in Stores, NEW t \in Stores, SameIncoming(s, t), NEW c \in Chats,
         t.unread[c] <= s.unread[c], NEW n \in {0, 1}, NEW k \in {0, 1}, k <= n, Badge(s, c, n)
  PROVE  Badge(t, c, k)
<1>1. IncomingRows(t, c) = IncomingRows(s, c)
  BY DEF IncomingRows, SameIncoming
<1>2. /\ Cardinality(IncomingRows(s, c)) \in Nat /\ s.unread[c] \in Nat
      /\ t.unread[c] \in Nat /\ HistoryUnread[c] \in Nat
  BY BadgeTyped
<1> QED
  BY <1>1, <1>2 DEF Badge

\* A new incoming row makes room for one increment.
LEMMA BadgeOfNewRow ==
  ASSUME NEW s \in Stores, NEW t \in Stores, NEW m \in Incoming, ~Exists(s, m), Exists(t, m),
         \A x \in Messages \ {m} : Exists(t, x) <=> Exists(s, x),
         NEW c \in Chats, Badge(s, c, 0),
         NEW k \in {0, 1}, c # ChatOf[m] => k = 0,
         t.unread[c] + k <= s.unread[c] + (IF c = ChatOf[m] THEN 1 ELSE 0)
  PROVE  Badge(t, c, k)
<1>1. /\ Cardinality(IncomingRows(s, c)) \in Nat /\ s.unread[c] \in Nat
      /\ t.unread[c] \in Nat /\ HistoryUnread[c] \in Nat /\ IsFiniteSet(IncomingRows(s, c))
  BY BadgeTyped
<1>2. Incoming \subseteq Messages
  BY MessagesAssumption
<1>3. CASE c = ChatOf[m]
  <2>1. IncomingRows(t, c) = IncomingRows(s, c) \cup {m} /\ m \notin IncomingRows(s, c)
    BY <1>2, <1>3 DEF IncomingRows
  <2>2. Cardinality(IncomingRows(t, c)) = Cardinality(IncomingRows(s, c)) + 1
    BY <1>1, <2>1, FS_AddElement
  <2> QED
    BY <1>1, <1>3, <2>2 DEF Badge
<1>4. CASE c # ChatOf[m]
  <2>1. IncomingRows(t, c) = IncomingRows(s, c)
    BY <1>2, <1>4 DEF IncomingRows
  <2> QED
    BY <1>1, <1>4, <2>1 DEF Badge
<1> QED
  BY <1>3, <1>4

\* A counter that is reset stays within its limit: an increment under way has its row.
LEMMA BadgeReset ==
  ASSUME Typed, Consistent, NEW c \in Chats, NEW t \in Stores, SameIncoming(db, t), t.unread[c] = 0
  PROVE  Badge(t, c, Owed(c))
<1>1. db \in Stores /\ IncomingRows(t, c) = IncomingRows(db, c)
  BY DEF Typed, TypeOK, IncomingRows, SameIncoming
<1>2. /\ IsFiniteSet(IncomingRows(db, c)) /\ Cardinality(IncomingRows(db, c)) \in Nat
      /\ HistoryUnread[c] \in Nat
  BY <1>1, BadgeTyped
<1>3. CASE Owed(c) = 0
  BY <1>1, <1>2, <1>3 DEF Badge
<1>4. CASE Owed(c) = 1
  <2>1. worker \in {"last", "count"} /\ job.ids \subseteq Incoming /\ job.chat = c
    BY <1>4 DEF Owed
  <2>2. job \in Deliveries /\ job.kind = "message"
    BY <2>1 DEF Typed, Hands, MessageSteps
  <2>3. PICK m \in Messages : job.ids = {m} /\ job.chat = ChatOf[m]
    BY <2>2, DeliveryFacts
  <2>4. Exists(db, m)
    BY <2>1, <2>3 DEF Consistent, Ready
  <2>5. m \in IncomingRows(db, c)
    BY <2>1, <2>3, <2>4 DEF IncomingRows
  <2>6. Cardinality(IncomingRows(db, c)) # 0
    BY <1>2, <2>5, FS_EmptySet
  <2> QED
    BY <1>1, <1>2, <1>4, <2>6 DEF Badge
<1> QED
  BY <1>3, <1>4 DEF Owed

\* When an increment under way is still under way, or forgotten.
LEMMA OwedKept ==
  ASSUME \/ UNCHANGED <<worker, job>> \/ worker' \notin {"last", "count"}
         \/ (worker = "last" /\ worker' = "count" /\ UNCHANGED job)
  PROVE  \A c \in Chats : Owed(c) \in {0, 1} /\ Owed(c)' \in {0, 1} /\ Owed(c)' <= Owed(c)
BY DEF Owed

\* A step that stores no incoming message and raises no counter.
LEMMA QuietCounted ==
  ASSUME Typed, Counted, NEW t \in Stores, db' = t, SameIncoming(db, t),
         \A c \in Chats : t.unread[c] <= db.unread[c],
         UNCHANGED tx \/ tx' = NoTx,
         \/ UNCHANGED <<worker, job>> \/ worker' \notin {"last", "count"}
         \/ (worker = "last" /\ worker' = "count" /\ UNCHANGED job),
         worker = "last" /\ worker' = "count" => job.ids \subseteq Incoming
  PROVE  Counted'
<1>1. db \in Stores
  BY DEF Typed, TypeOK
<1>2. \A c \in Chats : Owed(c) \in {0, 1} /\ Owed(c)' \in {0, 1} /\ Owed(c)' <= Owed(c)
  BY OwedKept
<1>3. \A c \in Chats : Badge(t, c, Owed(c)')
  BY <1>1, <1>2, BadgeKept DEF Counted
<1>4. \A c \in Chats : Badge(db, c, Owed(c))'
  BY <1>3 DEF Badge, IncomingRows, Exists
<1>5. (tx # NoTx => \A c \in Chats : Badge(tx, c, 0))'
  BY DEF Counted, Badge, IncomingRows, Exists
<1>6. (worker = "count" => job.ids \subseteq Incoming)'
  BY DEF Counted
<1> QED
  BY <1>4, <1>5, <1>6 DEF Counted

\* Initially.
LEMMA InitCounted == Init => Counted
<1> SUFFICES ASSUME Init PROVE Counted
  OBVIOUS
<1>1. db = EmptyStore /\ tx = NoTx /\ worker = "idle"
  BY DEF Init, PersisterInit
<1>2. EmptyStore \in Stores /\ \A c \in Chats : EmptyStore.unread[c] = 0
  BY DEF EmptyStore, Stores, Statuses
<1>3. \A c \in Chats : Badge(db, c, Owed(c))
  BY <1>1, <1>2, BadgeTyped DEF Badge, Owed
<1> QED
  BY <1>1, <1>3 DEF Counted

\* Everything the worker does with a live event.
LEMMA LiveStepCounted ==
  Typed /\ Consistent /\ Counted /\ LiveStep /\ UNCHANGED methodVars => Counted'
<1> SUFFICES ASSUME Typed, Consistent, Counted, LiveStep PROVE Counted'
  OBVIOUS
<1>1. /\ db \in Stores /\ Incoming \subseteq Messages
      /\ worker \in MessageSteps \cup OtherSteps => job \in Deliveries
      /\ worker \in MessageSteps => job.kind = "message"
  BY MessagesAssumption DEF Typed, TypeOK, Hands, MessageSteps, OtherSteps
<1>2. worker \in MessageSteps \cup OtherSteps => job.chat \in Chats /\ job.ids \in SUBSET Messages
  BY <1>1, DeliveryFacts
<1>3. \A c \in Chats : db.unread[c] \in Nat
  BY <1>1 DEF Stores
<1>4. CASE StoreChat
  <2>1. /\ worker = "chat" /\ worker' = "insert" /\ db' = UpsertChat(db, job.chat) /\ UNCHANGED tx
    BY <1>4 DEF StoreChat, Statement
  <2>2. /\ UpsertChat(db, job.chat) \in Stores /\ SameIncoming(db, UpsertChat(db, job.chat))
        /\ UpsertChat(db, job.chat).unread = db.unread
    BY <1>1, <1>2, <2>1, UpsertChatFacts DEF SameRows, SameIncoming, MessageSteps
  <2> QED
    BY <1>3, <2>1, <2>2, QuietCounted
<1>5. CASE CountUnread
  <2> DEFINE s == IncrementUnread(db, job.chat)
  <2>1. /\ worker = "count" /\ worker' = "publish" /\ db' = s /\ UNCHANGED tx /\ tx = NoTx
    BY <1>5 DEF CountUnread, Statement, ConnectionFree
  <2>2. job.chat \in Chats /\ db.unread[job.chat] + 1 \in Nat
    BY <1>1, <1>2, <2>1 DEF Stores, MessageSteps
  <2>3. /\ s \in Stores /\ SameRows(db, s)
        /\ \A x \in Chats \ {job.chat} : s.unread[x] = db.unread[x]
        /\ s.unread[job.chat] = db.unread[job.chat] + 1 \/ s.unread[job.chat] = db.unread[job.chat]
    BY <1>1, <2>2, CounterFacts
  <2>4. Owed(job.chat) = 1 /\ \A c \in Chats : Owed(c) \in {0, 1} /\ Owed(c)' = 0
    BY <2>1 DEF Counted, Owed
  <2>5. \A c \in Chats : IncomingRows(s, c) = IncomingRows(db, c)
    BY <1>1, <2>3 DEF IncomingRows, SameRows
  <2>6. \A c \in Chats : Badge(s, c, 0)
    <3> SUFFICES ASSUME NEW c \in Chats PROVE Badge(s, c, 0)
      OBVIOUS
    <3>1. /\ Cardinality(IncomingRows(db, c)) \in Nat /\ s.unread[c] \in Nat
          /\ db.unread[c] \in Nat /\ HistoryUnread[c] \in Nat
      BY <1>1, <2>3, BadgeTyped
    <3>2. /\ db.unread[c] + Owed(c) <= HistoryUnread[c] + Cardinality(IncomingRows(db, c))
          /\ Owed(c) \in {0, 1}
      BY <2>4 DEF Counted, Badge
    <3>3. CASE c = job.chat
      <4> HIDE DEF s
      <4> QED
        BY <2>3, <2>4, <2>5, <3>1, <3>2, <3>3 DEF Badge
    <3>4. CASE c # job.chat
      <4> HIDE DEF s
      <4> QED
        BY <2>3, <2>5, <3>1, <3>2, <3>4 DEF Badge
    <3> QED
      BY <3>3, <3>4
  <2> QED
    BY <2>1, <2>4, <2>6 DEF Counted, Badge, IncomingRows, Exists
<1>6. CASE PublishMessage
  BY <1>1, <1>3, <1>6, QuietCounted DEF PublishMessage, SameIncoming
<1>7. ASSUME NEW m \in Messages, StoreMessage(m) PROVE Counted'
  <2> DEFINE s == InsertMessage(db, m)
  <2>1. /\ worker = "insert" /\ job.ids = {m} /\ db' = s /\ UNCHANGED tx /\ tx = NoTx
        /\ worker' = (IF Exists(db, m) THEN "idle" ELSE "last")
        /\ job' = (IF worker' = "idle" THEN NoEvent ELSE job)
    BY <1>7 DEF StoreMessage, Statement, ConnectionFree
  <2>2. /\ s \in Stores /\ s.unread = db.unread
        /\ \A x \in Messages \ {m} : Exists(s, x) <=> Exists(db, x)
        /\ ChatOf[m] \in db.known => Exists(s, m)
    BY <1>1, InsertMessageFacts
  <2>3. job.chat = ChatOf[m] /\ job.chat \in db.known
    BY <1>1, <2>1, DeliveryFacts DEF Consistent, Ready, MessageSteps
  <2>4. CASE Exists(db, m)
    BY <1>1, <1>3, <2>1, <2>4, QuietCounted DEF InsertMessage, SameIncoming
  <2>5. CASE ~Exists(db, m) /\ m \notin Incoming
    <3>1. \A c \in Chats : Owed(c) \in {0, 1} /\ Owed(c)' = 0
      BY <2>1, <2>5 DEF Owed
    <3>2. SameIncoming(db, s)
      BY <1>1, <2>2, <2>5 DEF SameIncoming
    <3> HIDE DEF s
    <3>3. \A c \in Chats : Badge(s, c, 0)
      BY <1>1, <1>3, <2>2, <3>1, <3>2, BadgeKept DEF Counted
    <3> QED
      BY <2>1, <2>5, <3>1, <3>3 DEF Counted, Badge, IncomingRows, Exists
  <2>6. CASE ~Exists(db, m) /\ m \in Incoming
    <3>1. \A c \in Chats : Owed(c)' \in {0, 1} /\ (c # ChatOf[m] => Owed(c)' = 0) /\ Owed(c) = 0
      BY <2>1, <2>3, <2>6 DEF Owed
    <3>2. \A c \in Chats : Badge(s, c, Owed(c)')
      <4> SUFFICES ASSUME NEW c \in Chats PROVE Badge(s, c, Owed(c)')
        OBVIOUS
      <4>1. Badge(db, c, 0) /\ s.unread[c] + Owed(c)' <= db.unread[c] + (IF c = ChatOf[m] THEN 1 ELSE 0)
        BY <1>3, <2>2, <3>1 DEF Counted
      <4> QED
        BY <1>1, <2>2, <2>3, <2>6, <3>1, <4>1, BadgeOfNewRow
    <3> HIDE DEF s
    <3> QED
      BY <2>1, <2>6, <3>2 DEF Counted, Badge, IncomingRows, Exists
  <2> QED
    BY <2>4, <2>5, <2>6
<1>8. ASSUME NEW m \in Messages, StoreLast(m) PROVE Counted'
  <2> DEFINE s == UpdateChatLastMessage(db, m)
  <2>1. /\ worker = "last" /\ job.ids = {m} /\ db' = s /\ UNCHANGED <<tx, job>>
        /\ worker' = (IF m \in Incoming THEN "count" ELSE "publish")
    BY <1>8 DEF StoreLast, Statement
  <2>2. s \in Stores /\ SameIncoming(db, s) /\ s.unread = db.unread
    BY <1>1, UpdateChatLastMessageFacts DEF SameRows, SameIncoming
  <2> QED
    BY <1>3, <2>1, <2>2, QuietCounted
<1>9. CASE RevokeMessage \/ EditMessage
  <2>1. /\ job.ids \in SUBSET Messages /\ worker' = "idle" /\ UNCHANGED tx
        /\ db' = SetMessageEdited(db, job.ids) \/ db' = SetMessageDeleted(db, job.ids)
    BY <1>2, <1>9 DEF RevokeMessage, EditMessage, Statement, OtherSteps
  <2>2. db' \in Stores /\ SameIncoming(db, db') /\ db'.unread = db.unread
    BY <1>1, <2>1, TextFacts DEF SameRows, SameIncoming
  <2> QED
    BY <1>3, <2>1, <2>2, QuietCounted
<1>10. CASE StoreReceipt
  <2> DEFINE status == IF job.kind = "delivered" THEN "delivered" ELSE "read"
  <2>1. /\ job.ids \in SUBSET Messages /\ worker' \in {"idle", "clear"} /\ UNCHANGED tx
        /\ db' = SetMessagesStatus(db, job.ids, status) /\ status \in {"delivered", "read"}
    BY <1>2, <1>10 DEF StoreReceipt, Statement, OtherSteps
  <2>2. db' \in Stores /\ SameIncoming(db, db') /\ db'.unread = db.unread
    BY <1>1, <2>1, SetMessagesStatusFacts DEF SameRows, SameIncoming
  <2> QED
    BY <1>3, <2>1, <2>2, QuietCounted
<1>11. CASE ClearUnread
  <2>1. /\ job.chat \in Chats /\ db' = SetUnread(db, job.chat, 0) /\ worker' = "idle" /\ UNCHANGED tx
    BY <1>2, <1>11 DEF ClearUnread, Statement, MarkChatRead, OtherSteps
  <2>2. /\ db' \in Stores /\ SameIncoming(db, db')
        /\ \A c \in Chats : db'.unread[c] <= db.unread[c]
    BY <1>1, <1>3, <2>1, CounterFacts DEF SameRows, SameIncoming
  <2> QED
    BY <2>1, <2>2, QuietCounted
<1> QED
  BY <1>4, <1>5, <1>6, <1>7, <1>8, <1>9, <1>10, <1>11 DEF LiveStep

\* A history transaction.
LEMMA HistoryStepCounted ==
  Typed /\ Consistent /\ Counted /\ HistoryStep /\ UNCHANGED methodVars => Counted'
<1> SUFFICES ASSUME Typed, Consistent, Counted, HistoryStep PROVE Counted'
  OBVIOUS
<1>1. /\ db \in Stores /\ Incoming \subseteq Messages
      /\ worker \in HistorySteps => job \in Deliveries /\ job.kind = "history"
      /\ worker = "replay" => tx \in Stores /\ tx # NoTx
  BY MessagesAssumption, DeliveriesAssumption DEF Typed, TypeOK, Hands, HistorySteps
<1>2. worker \in HistorySteps =>
        /\ job.chat \in Chats /\ job.unread \in Nat /\ job.ts \in Nat
        /\ job.unread <= HistoryUnread[job.chat]
  BY <1>1, DeliveryFacts
<1>3. \A c \in Chats : db.unread[c] \in Nat /\ Owed(c) \in {0, 1} /\ HistoryUnread[c] \in Nat
  BY <1>1, BadgeTyped
<1>4. ASSUME UNCHANGED db, worker' \notin {"last", "count"},
             NEW s \in Stores, tx' = s, \A c \in Chats : Badge(s, c, 0)
      PROVE  Counted'
  <2>1. \A c \in Chats : Owed(c)' \in {0, 1} /\ Owed(c)' <= Owed(c)
    BY <1>4, OwedKept
  <2>2. \A c \in Chats : Badge(db, c, Owed(c)')
    BY <1>1, <1>3, <2>1, BadgeKept DEF Counted, SameIncoming
  <2> QED
    BY <1>4, <2>2 DEF Counted, Badge, IncomingRows, Exists
<1>5. CASE BeginConversation
  <2> DEFINE s == UpsertChat(db, job.chat)
  <2>1. /\ worker = "begin" /\ worker' \in {"replay", "stuck"} /\ tx' = s /\ UNCHANGED db
    BY <1>5 DEF BeginConversation
  <2>2. s \in Stores /\ SameIncoming(db, s) /\ s.unread = db.unread
    BY <1>1, <1>2, <2>1, UpsertChatFacts DEF SameRows, SameIncoming, HistorySteps
  <2> HIDE DEF s
  <2>3. \A c \in Chats : Badge(s, c, 0)
    BY <1>1, <1>3, <2>2, BadgeKept DEF Counted
  <2> QED
    BY <1>4, <2>1, <2>2, <2>3
<1>6. ASSUME NEW m \in Messages, ReplayMessage(m) PROVE Counted'
  <2>1. worker = "replay" /\ worker' = "replay" /\ UNCHANGED db
    BY <1>6 DEF ReplayMessage
  <2>2. /\ tx \in Stores /\ \A c \in Chats : Badge(tx, c, 0) /\ tx.unread[c] \in Nat
    BY <1>1, <2>1 DEF Counted, Stores
  <2>3. Linked(tx)
    BY <1>1, <2>1 DEF Consistent, TxConsistent
  <2> DEFINE t == Replayed(tx, m)
  <2>4. /\ t \in Stores
        /\ \A x \in Messages \ {m} : Exists(t, x) <=> Exists(tx, x)
        /\ \/ t = tx
           \/ /\ ~Exists(tx, m) /\ (Exists(t, m) <=> ChatOf[m] \in tx.known)
              /\ IF m \in Incoming /\ ChatOf[m] \in tx.known
                   THEN /\ t.unread[ChatOf[m]] = tx.unread[ChatOf[m]] + 1
                        /\ \A c \in Chats \ {ChatOf[m]} : t.unread[c] = tx.unread[c]
                   ELSE t.unread = tx.unread
    BY <2>2, ReplayedFacts
  <2> HIDE DEF t
  <2>5. \A c \in Chats : Badge(t, c, 0)
    <3> SUFFICES ASSUME NEW c \in Chats PROVE Badge(t, c, 0)
      OBVIOUS
    <3>1. CASE t = tx
      BY <2>2, <3>1
    <3>2. CASE /\ m \in Incoming /\ ~Exists(tx, m) /\ Exists(t, m)
               /\ t.unread[ChatOf[m]] = tx.unread[ChatOf[m]] + 1
               /\ \A x \in Chats \ {ChatOf[m]} : t.unread[x] = tx.unread[x]
      <4>1. t.unread[c] + 0 <= tx.unread[c] + (IF c = ChatOf[m] THEN 1 ELSE 0)
        BY <2>2, <3>2
      <4> QED
        BY <2>2, <2>4, <3>2, <4>1, BadgeOfNewRow
    <3>3. CASE t.unread = tx.unread /\ (m \in Incoming => ~Exists(t, m) /\ ~Exists(tx, m))
      <4>1. SameIncoming(tx, t) /\ t.unread[c] <= tx.unread[c]
        BY <1>1, <2>2, <2>4, <3>3 DEF SameIncoming
      <4> QED
        BY <2>2, <2>4, <4>1, BadgeKept
    <3> QED
      BY <2>4, <3>1, <3>2, <3>3
  <2>6. ASSUME NEW ids \in SUBSET Messages,
               tx' = SetMessageEdited(tx, ids) \/ tx' = SetMessageDeleted(tx, ids)
        PROVE  tx' \in Stores /\ \A c \in Chats : Badge(tx', c, 0)
    <3>1. tx' \in Stores /\ SameIncoming(tx, tx') /\ tx'.unread = tx.unread
      BY <1>1, <2>2, <2>6, TextFacts DEF SameRows, SameIncoming
    <3> QED
      BY <2>2, <3>1, BadgeKept
  <2>7. tx' \in Stores /\ \A c \in Chats : Badge(tx', c, 0)
    BY <1>6, <2>2, <2>4, <2>5, <2>6, ReplayCases DEF t
  <2> QED
    BY <1>4, <2>1, <2>7
<1>7. CASE LookupInTransaction
  BY <1>1, <1>4, <1>7 DEF LookupInTransaction, Counted
<1>8. CASE CommitConversation
  <2> DEFINE i == SetChatLastTimestamp(tx, job.chat, job.ts)
             s == SetUnread(i, job.chat, job.unread)
  <2>1. worker = "replay" /\ worker' = "idle" /\ tx' = NoTx /\ db' = s
    BY <1>8 DEF CommitConversation
  <2>2. /\ tx \in Stores /\ job.chat \in Chats /\ job.unread \in Nat /\ job.ts \in Nat
        /\ job.unread <= HistoryUnread[job.chat] /\ \A c \in Chats : Badge(tx, c, 0)
    BY <1>1, <1>2, <2>1 DEF HistorySteps, Counted
  <2>3. i \in Stores /\ SameRows(tx, i) /\ i.unread = tx.unread
    BY <2>2, SetChatLastTimestampFacts
  <2>4. /\ s \in Stores /\ SameRows(i, s)
        /\ \A x \in Chats \ {job.chat} : s.unread[x] = i.unread[x]
        /\ s.unread[job.chat] = job.unread \/ s.unread[job.chat] = i.unread[job.chat]
    BY <2>2, <2>3, CounterFacts
  <2>5. SameIncoming(tx, s)
    BY <1>1, <2>3, <2>4 DEF SameRows, SameIncoming
  <2> HIDE DEF s, i
  <2>6. \A c \in Chats : Badge(s, c, 0)
    <3> SUFFICES ASSUME NEW c \in Chats PROVE Badge(s, c, 0)
      OBVIOUS
    <3>1. /\ Cardinality(IncomingRows(s, c)) \in Nat /\ tx.unread[c] \in Nat
          /\ HistoryUnread[c] \in Nat
      BY <2>2, <2>4, BadgeTyped
    <3>2. CASE s.unread[c] = tx.unread[c]
      BY <2>2, <2>4, <2>5, <3>1, <3>2, BadgeKept
    <3>3. CASE c = job.chat /\ s.unread[c] = job.unread
      BY <2>2, <3>1, <3>3 DEF Badge
    <3> QED
      BY <2>3, <2>4, <3>2, <3>3
  <2>7. \A c \in Chats : Owed(c)' = 0
    BY <2>1 DEF Owed
  <2> QED
    BY <2>1, <2>6, <2>7 DEF Counted, Badge, IncomingRows, Exists
<1> QED
  BY <1>5, <1>6, <1>7, <1>8 DEF HistoryStep

\* The methods: message.read resets a counter, message.send stores no incoming message.
LEMMA MethodCounted ==
  Typed /\ Consistent /\ Counted /\ (StoreOutgoing \/ FinishRead) => Counted'
<1> SUFFICES ASSUME Typed, Consistent, Counted, StoreOutgoing \/ FinishRead PROVE Counted'
  OBVIOUS
<1>1. db \in Stores /\ UNCHANGED <<worker, job, tx>> /\ tx = NoTx /\ Incoming \subseteq Messages
  BY MessagesAssumption DEF Typed, TypeOK, StoreOutgoing, SendStatement, FinishRead, ReadStatement,
     MethodStatement, ConnectionFree, workVars
<1>2. \A c \in Chats : db.unread[c] \in Nat
  BY <1>1 DEF Stores
<1>3. ASSUME NEW s \in Stores, MethodStatement(s), SameIncoming(db, s), s.unread = db.unread
      PROVE  Counted'
  <2>1. /\ db' \in Stores /\ SameIncoming(db, db') /\ db'.unread = db.unread
    BY <1>1, <1>3 DEF MethodStatement, SameIncoming
  <2> QED
    BY <1>1, <1>2, <2>1, QuietCounted
<1>4. CASE StoreOutgoing
  <2>1. sending \in Messages \ Incoming /\ ChatOf[sending] \in Chats
    BY <1>4, MessagesAssumption DEF StoreOutgoing, SendStatement, Typed, Hands
  <2>2. CASE MethodStatement(UpsertChat(db, ChatOf[sending]))
    BY <1>1, <1>3, <2>1, <2>2, UpsertChatFacts DEF SameRows, SameIncoming
  <2>3. CASE MethodStatement(InsertMessage(db, sending))
    <3>1. /\ InsertMessage(db, sending) \in Stores
          /\ InsertMessage(db, sending).unread = db.unread
          /\ SameIncoming(db, InsertMessage(db, sending))
      BY <1>1, <2>1, InsertMessageFacts DEF SameIncoming
    <3> QED
      BY <1>3, <2>3, <3>1
  <2>4. CASE MethodStatement(UpdateChatLastMessage(db, sending))
    BY <1>1, <1>3, <2>1, <2>4, UpdateChatLastMessageFacts DEF SameRows, SameIncoming
  <2> QED
    BY <1>4, <2>2, <2>3, <2>4 DEF StoreOutgoing, SendStatement
<1>5. CASE FinishRead
  <2>1. reading \in SUBSET Messages /\ readChat \in Chats
    BY MessagesAssumption DEF Typed, TypeOK
  <2>2. CASE MethodStatement(SetMessagesStatus(db, reading, "read"))
    BY <1>1, <1>3, <2>1, <2>2, SetMessagesStatusFacts DEF SameRows, SameIncoming
  <2>3. CASE MethodStatement(SetUnread(db, readChat, 0))
    <3>1. CASE db' = db
      BY <1>1, <1>2, <3>1, QuietCounted DEF SameIncoming
    <3>2. CASE db' = SetUnread(db, readChat, 0)
      <4> DEFINE s == SetUnread(db, readChat, 0)
      <4>1. /\ s \in Stores /\ SameIncoming(db, s)
            /\ \A x \in Chats \ {readChat} : s.unread[x] = db.unread[x]
            /\ s.unread[readChat] = 0 \/ s.unread[readChat] = db.unread[readChat]
        BY <1>1, <2>1, CounterFacts DEF SameRows, SameIncoming
      <4> HIDE DEF s
      <4>2. \A c \in Chats : Badge(s, c, Owed(c))
        <5> SUFFICES ASSUME NEW c \in Chats PROVE Badge(s, c, Owed(c))
          OBVIOUS
        <5>1. CASE s.unread[c] = 0
          BY <4>1, <5>1, BadgeReset
        <5>2. CASE s.unread[c] = db.unread[c]
          BY <1>1, <1>2, <4>1, <5>2, BadgeKept DEF Counted, Owed
        <5> QED
          BY <4>1, <5>1, <5>2
      <4>3. db' = s
        BY <3>2 DEF s
      <4>4. \A c \in Chats : Owed(c)' = Owed(c)
        BY <1>1 DEF Owed
      <4> QED
        BY <1>1, <4>2, <4>3, <4>4 DEF Counted, Badge, IncomingRows, Exists
    <3> QED
      BY <2>3, <3>1, <3>2 DEF MethodStatement
  <2> QED
    BY <1>5, <2>2, <2>3 DEF FinishRead, ReadStatement, MarkChatRead
<1> QED
  BY <1>4, <1>5

\* Steps that leave the committed store alone.
LEMMA OtherCounted ==
  ASSUME Typed, Counted, UNCHANGED db, UNCHANGED tx \/ tx' = NoTx,
         UNCHANGED <<worker, job>> \/ worker' \notin {"last", "count"}
  PROVE  Counted'
<1>1. db \in Stores /\ SameIncoming(db, db) /\ \A c \in Chats : db.unread[c] <= db.unread[c]
  BY DEF Typed, TypeOK, SameIncoming, Stores
<1> QED
  BY <1>1, QuietCounted

\* Every step keeps the counters within their limits.
LEMMA NextCounted == Typed /\ Consistent /\ Counted /\ [Next]_vars => Counted'
<1> SUFFICES ASSUME Typed, Consistent, Counted, [Next]_vars PROVE Counted'
  OBVIOUS
<1>1. CASE Take
  <2>1. Head(inbox) \in Deliveries /\ worker' = FirstStep[Head(inbox).kind] /\ UNCHANGED <<db, tx>>
    BY <1>1 DEF Take, Typed, TypeOK
  <2>2. worker' \in {"chat", "begin", "revoke", "edit", "status"}
    BY <2>1, DeliveryFacts DEF FirstStep
  <2> QED
    BY <2>1, <2>2, OtherCounted
<1>2. CASE EndWorker \/ FailStatement \/ Crash
  BY <1>2, OtherCounted DEF EndWorker, FailStatement, Crash
<1>3. CASE (\E e \in Deliveries : handleEvent(e)) \/ Close
  BY <1>3, OtherCounted DEF handleEvent, Close, workVars
<1>4. CASE \/ MarkRead \/ UNCHANGED vars
           \/ \E m \in Messages : SendMessage(m)
           \/ \E c \in Chats : ReadNothing(c) \/ CollectPending(c)
  BY <1>4, OtherCounted
     DEF MarkRead, SendMessage, ReadNothing, CollectPending, vars, persisterVars, workVars
<1>5. CASE LiveStep /\ UNCHANGED methodVars
  BY <1>5, LiveStepCounted
<1>6. CASE HistoryStep /\ UNCHANGED methodVars
  BY <1>6, HistoryStepCounted
<1>7. CASE StoreOutgoing \/ FinishRead
  BY <1>7, MethodCounted
<1> QED
  BY <1>1, <1>2, <1>3, <1>4, <1>5, <1>6, <1>7 DEF Next, WorkerStep

\* The unread counter of a chat never exceeds what a history batch gave it plus the chat's
\* stored incoming messages: no message is counted twice.
THEOREM CountedCorrect == Spec => []CountedOnce
<1>1. Typed /\ Counted => CountedOnce
  <2> SUFFICES ASSUME Typed, Counted, NEW c \in Chats
               PROVE  db.unread[c] <= HistoryUnread[c]
                        + Cardinality({m \in Incoming : ChatOf[m] = c /\ Exists(db, m)})
    BY DEF CountedOnce
  <2>1. /\ db.unread[c] \in Nat /\ HistoryUnread[c] \in Nat /\ Owed(c) \in {0, 1}
        /\ Cardinality(IncomingRows(db, c)) \in Nat
    BY BadgeTyped DEF Typed, TypeOK
  <2>2. db.unread[c] <= HistoryUnread[c] + Cardinality(IncomingRows(db, c))
    BY <2>1 DEF Counted, Badge
  <2> QED
    BY <2>2 DEF IncomingRows
<1> QED
  BY <1>1, InitCounted, NextCounted, ConsistentAlways, PTL DEF Spec

-----------------------------------------------------------------------------
(* What the queue accepted                                                 *)

\* Besides AcceptedKept: the worker ends after Close only, has no event when it has no
\* step to do, and no message's event at the steps of other events.
Queued ==
  /\ AcceptedKept
  /\ worker = "ended" => done
  /\ worker \in {"idle", "ended"} => job = NoEvent
  /\ worker \in OtherSteps => job.kind # "message"

\* Initially.
LEMMA InitQueued == Init => Queued
BY DEF Init, PersisterInit, Queued, AcceptedKept, OtherSteps

\* Only messages' events carry messages.
LEMMA OtherEventsEmpty ==
  MessagesOf(NoEvent) = {} /\ (job.kind # "message" => MessagesOf(job) = {})
BY DEF MessagesOf

\* What is in a queue stays when an event is added to its end.
LEMMA AppendKeeps ==
  ASSUME Typed, NEW e \in Deliveries, inbox' = Append(inbox, e), NEW m
  PROVE  /\ InQueue(m) => InQueue(m)'
         /\ m \in MessagesOf(e) => InQueue(m)'
<1>1. /\ inbox \in Seq(Deliveries) /\ Len(inbox) \in Nat
      /\ DOMAIN inbox = 1..Len(inbox) /\ DOMAIN inbox' = 1..(Len(inbox) + 1)
      /\ \A i \in 1..Len(inbox) : inbox'[i] = inbox[i]
      /\ inbox'[Len(inbox) + 1] = e
  BY DEF Typed, TypeOK
<1>2. ASSUME InQueue(m) PROVE InQueue(m)'
  <2>1. PICK i \in 1..Len(inbox) : m \in MessagesOf(inbox[i])
    BY <1>1, <1>2 DEF InQueue
  <2>2. i \in DOMAIN inbox' /\ m \in MessagesOf(inbox'[i])
    BY <1>1, <2>1
  <2> QED
    BY <2>2 DEF InQueue, MessagesOf
<1>3. ASSUME m \in MessagesOf(e) PROVE InQueue(m)'
  <2>1. Len(inbox) + 1 \in DOMAIN inbox' /\ m \in MessagesOf(inbox'[Len(inbox) + 1])
    BY <1>1, <1>3
  <2> QED
    BY <2>1 DEF InQueue, MessagesOf
<1> QED
  BY <1>2, <1>3

\* What is in a queue is in its first event or stays when that is taken.
LEMMA TakeKeeps ==
  ASSUME Typed, inbox # <<>>, inbox' = Tail(inbox), NEW m, InQueue(m)
  PROVE  m \in MessagesOf(Head(inbox)) \/ InQueue(m)'
<1>1. /\ inbox \in Seq(Deliveries) /\ Len(inbox) \in Nat
      /\ DOMAIN inbox = 1..Len(inbox) /\ DOMAIN inbox' = 1..(Len(inbox) - 1)
      /\ \A i \in 1..(Len(inbox) - 1) : inbox'[i] = inbox[i + 1]
      /\ Head(inbox) = inbox[1]
  BY DEF Typed, TypeOK
<1>2. PICK i \in 1..Len(inbox) : m \in MessagesOf(inbox[i])
  BY <1>1 DEF InQueue
<1>3. CASE i = 1
  BY <1>1, <1>2, <1>3
<1>4. CASE i # 1
  <2>1. i - 1 \in DOMAIN inbox' /\ m \in MessagesOf(inbox'[i - 1])
    BY <1>1, <1>2, <1>4
  <2> QED
    BY <2>1 DEF InQueue, MessagesOf
<1> QED
  BY <1>3, <1>4

\* A step that accepts nothing and does not end the worker: what it takes from the queue or
\* from the worker's hands is stored or lost.
LEMMA KeptFrame ==
  ASSUME Typed, Typed', Queued, Grows(db, db'), accepted' = accepted, lost \subseteq lost',
         worker' = "ended" => worker = "ended",
         \A m \in accepted :
           (InQueue(m) \/ m \in MessagesOf(job)) /\ worker # "ended" =>
             \/ Exists(db', m) \/ m \in lost' \/ InQueue(m)' \/ m \in MessagesOf(job')
  PROVE  AcceptedKept'
<1>1. db \in Stores /\ db' \in Stores /\ accepted \subseteq Messages
  BY DEF Typed, TypeOK
<1>2. \A m \in Messages : Exists(db, m) => Exists(db', m)
  BY <1>1, GrowsKeepsRows
<1> QED
  BY <1>1, <1>2 DEF Queued, AcceptedKept, Exists, MessagesOf, InQueue

\* The statements of live events: a handler lets go of a message only when it is stored.
LEMMA LiveStepQueued ==
  Typed /\ Typed' /\ Consistent /\ Grows(db, db') /\ Queued /\ LiveStep => Queued'
<1> SUFFICES ASSUME Typed, Typed', Consistent, Grows(db, db'), Queued, LiveStep PROVE Queued'
  OBVIOUS
<1>1. /\ UNCHANGED <<inbox, done, accepted, lost>>
      /\ worker \in MessageSteps \cup OtherSteps /\ worker' # "ended"
      /\ job' = IF worker' = "idle" THEN NoEvent ELSE job
      /\ worker' \in OtherSteps => worker \in OtherSteps
  BY DEF LiveStep, StoreChat, CountUnread, PublishMessage, StoreMessage, StoreLast,
         RevokeMessage, EditMessage, StoreReceipt, ClearUnread, Statement, queueVars,
         MessageSteps, OtherSteps
<1>2. ASSUME NEW m \in MessagesOf(job), worker' = "idle" PROVE Exists(db', m)
  <2>1. job.kind = "message" /\ job.ids = MessagesOf(job) /\ worker \in MessageSteps
    BY <1>1, <1>2 DEF MessagesOf, Queued
  <2>2. job.ids \in SUBSET Messages /\ db \in Stores /\ db' \in Stores
    BY <2>1, DeliveryFacts DEF Typed, TypeOK, Hands, MessageSteps
  <2>3. Exists(db, m)
    <3>1. CASE \E x \in Messages : StoreMessage(x)
      BY <1>2, <2>1, <3>1 DEF StoreMessage, Statement
    <3>2. CASE PublishMessage
      BY <1>2, <2>1, <3>2 DEF PublishMessage, Consistent, Ready
    <3>3. CASE ~(PublishMessage \/ \E x \in Messages : StoreMessage(x))
      BY <1>2, <2>1, <3>3 DEF LiveStep, StoreChat, CountUnread, StoreLast, RevokeMessage,
         EditMessage, StoreReceipt, ClearUnread, Statement, MessageSteps
    <3> QED
      BY <3>1, <3>2, <3>3
  <2> QED
    BY <1>2, <2>1, <2>2, <2>3, GrowsKeepsRows
<1>3. AcceptedKept'
  <2>1. \A m \in accepted : (InQueue(m) => InQueue(m)') /\
          (m \in MessagesOf(job) => Exists(db', m) \/ m \in MessagesOf(job'))
    BY <1>1, <1>2 DEF InQueue, MessagesOf
  <2> QED
    BY <1>1, <2>1, KeptFrame
<1> QED
  BY <1>1, <1>3 DEF Queued, OtherSteps

\* History batches carry no message of the queue's.
LEMMA HistoryStepQueued ==
  Typed /\ Typed' /\ Grows(db, db') /\ Queued /\ HistoryStep => Queued'
<1> SUFFICES ASSUME Typed, Typed', Grows(db, db'), Queued, HistoryStep PROVE Queued'
  OBVIOUS
<1>1. /\ UNCHANGED <<inbox, done, accepted, lost>>
      /\ worker \in {"begin", "replay"} /\ worker' \in {"idle", "replay", "stuck"}
      /\ worker' = "idle" => job' = NoEvent
  BY DEF HistoryStep, BeginConversation, ReplayMessage, LookupInTransaction, CommitConversation,
         queueVars
<1>2. MessagesOf(job) = {}
  BY <1>1, OtherEventsEmpty DEF Typed, Hands, HistorySteps
<1>3. \A m \in accepted : InQueue(m) => InQueue(m)'
  BY <1>1 DEF InQueue, MessagesOf
<1>4. AcceptedKept'
  BY <1>1, <1>2, <1>3, KeptFrame
<1> QED
  BY <1>1, <1>4 DEF Queued, OtherSteps

\* The two ends of the queue.
LEMMA QueueEndsQueued ==
  /\ \A e \in Deliveries :
       Typed /\ Typed' /\ Grows(db, db') /\ Queued /\ handleEvent(e) => Queued'
  /\ Typed /\ Typed' /\ Grows(db, db') /\ Queued /\ (Take \/ EndWorker) => Queued'
<1>1. ASSUME NEW e \in Deliveries, Typed, Typed', Grows(db, db'), Queued, handleEvent(e)
      PROVE  Queued'
  <2>1. UNCHANGED <<db, done, worker, job, lost>>
    BY <1>1 DEF handleEvent, workVars
  <2>2. CASE accepted' = accepted /\ (inbox' = inbox \/ inbox' = Append(inbox, e))
    <3>1. \A m \in accepted : InQueue(m) => InQueue(m)'
      BY <1>1, <2>2, AppendKeeps DEF InQueue, MessagesOf
    <3>2. AcceptedKept'
      BY <1>1, <2>1, <2>2, <3>1, KeptFrame DEF MessagesOf
    <3> QED
      BY <1>1, <2>1, <3>2 DEF Queued
  <2>3. CASE /\ ~done /\ e.kind = "message" /\ accepted' = accepted \cup e.ids
             /\ inbox' = Append(inbox, e)
    <3>1. MessagesOf(e) = e.ids
      BY <2>3, DeliveryFacts DEF MessagesOf
    <3>2. \A m : (InQueue(m) \/ m \in e.ids) => InQueue(m)'
      BY <1>1, <2>3, <3>1, AppendKeeps
    <3>3. AcceptedKept'
      BY <1>1, <2>1, <2>3, <3>2 DEF Queued, AcceptedKept, MessagesOf, Exists
    <3> QED
      BY <1>1, <2>1, <3>3 DEF Queued
  <2> QED
    BY <1>1, <2>2, <2>3 DEF handleEvent
<1>2. ASSUME Typed, Typed', Grows(db, db'), Queued, Take PROVE Queued'
  <2>1. /\ worker = "idle" /\ inbox # <<>> /\ inbox' = Tail(inbox) /\ job' = Head(inbox)
        /\ worker' = FirstStep[Head(inbox).kind] /\ UNCHANGED <<done, accepted, lost>>
    BY <1>2 DEF Take
  <2>2. Head(inbox) \in Deliveries /\ MessagesOf(job) = {}
    BY <1>2, <2>1, OtherEventsEmpty DEF Typed, TypeOK, Queued
  <2>3. /\ worker' \in {"chat", "begin", "revoke", "edit", "status"}
        /\ worker' \in OtherSteps => job'.kind # "message"
    BY <2>1, <2>2, DeliveryFacts DEF FirstStep, OtherSteps
  <2>4. \A m \in accepted : InQueue(m) => InQueue(m)' \/ m \in MessagesOf(job')
    <3>1. \A m \in accepted : InQueue(m) => InQueue(m)' \/ m \in MessagesOf(Head(inbox))
      BY <1>2, <2>1, TakeKeeps
    <3> QED
      BY <2>1, <3>1 DEF MessagesOf
  <2>5. AcceptedKept'
    BY <1>2, <2>1, <2>2, <2>3, <2>4, KeptFrame
  <2> QED
    BY <2>1, <2>3, <2>5 DEF Queued
<1>3. ASSUME Typed, Typed', Grows(db, db'), Queued, EndWorker PROVE Queued'
  <2>1. /\ worker = "idle" /\ done /\ inbox = <<>> /\ worker' = "ended"
        /\ UNCHANGED <<db, done, accepted, lost, job>>
    BY <1>3 DEF EndWorker, queueVars
  <2>2. \A m : ~InQueue(m) /\ m \notin MessagesOf(job)
    BY <1>3, <2>1, OtherEventsEmpty DEF InQueue, Queued
  <2>3. AcceptedKept'
    BY <1>3, <2>1, <2>2 DEF Queued, AcceptedKept, Exists
  <2> QED
    BY <1>3, <2>1, <2>3 DEF Queued, OtherSteps
<1> QED
  BY <1>1, <1>2, <1>3

\* A fault counts as lost what it takes: the event in hand, or, in a crash, the queue too.
LEMMA FaultQueued ==
  /\ Typed /\ Typed' /\ Grows(db, db') /\ Queued /\ FailStatement => Queued'
  /\ Typed /\ Typed' /\ Grows(db, db') /\ Queued /\ Crash => Queued'
<1>1. ASSUME Typed, Typed', Grows(db, db'), Queued, FailStatement PROVE Queued'
  <2>1. /\ UNCHANGED <<inbox, done, accepted>> /\ lost' = lost \cup MessagesOf(job)
        /\ worker' = "idle" /\ job' = NoEvent
    BY <1>1 DEF FailStatement, queueVars
  <2>2. \A m \in accepted : InQueue(m) => InQueue(m)'
    BY <2>1 DEF InQueue, MessagesOf
  <2>3. AcceptedKept'
    BY <1>1, <2>1, <2>2, KeptFrame
  <2> QED
    BY <2>1, <2>3 DEF Queued, OtherSteps
<1>2. ASSUME Typed, Typed', Grows(db, db'), Queued, Crash PROVE Queued'
  <2>1. /\ UNCHANGED accepted /\ worker # "ended" /\ worker' = "idle" /\ job' = NoEvent
        /\ lost' = lost \cup UNION {MessagesOf(e) : e \in {inbox[i] : i \in DOMAIN inbox} \cup {job}}
    BY <1>2 DEF Crash
  <2>2. \A m \in accepted : InQueue(m) \/ m \in MessagesOf(job) => m \in lost'
    BY <2>1 DEF InQueue
  <2>3. AcceptedKept'
    BY <1>2, <2>1, <2>2, KeptFrame
  <2> QED
    BY <2>1, <2>3 DEF Queued, OtherSteps
<1> QED
  BY <1>1, <1>2

\* Every step.
LEMMA NextQueued ==
  Typed /\ Typed' /\ Consistent /\ Grows(db, db') /\ Queued /\ [Next]_vars => Queued'
<1> SUFFICES ASSUME Typed, Typed', Consistent, Grows(db, db'), Queued, [Next]_vars PROVE Queued'
  OBVIOUS
<1>1. CASE \/ Close \/ StoreOutgoing \/ FinishRead \/ MarkRead \/ UNCHANGED vars
           \/ \E m \in Messages : SendMessage(m)
           \/ \E c \in Chats : ReadNothing(c) \/ CollectPending(c)
  <2>1. UNCHANGED <<inbox, accepted, worker, job, lost>> /\ (done => done')
    BY <1>1 DEF Close, StoreOutgoing, SendStatement, FinishRead, ReadStatement, MarkRead,
         SendMessage, ReadNothing, CollectPending, vars, persisterVars, queueVars, workVars
  <2>2. \A m \in accepted : InQueue(m) => InQueue(m)'
    BY <2>1 DEF InQueue, MessagesOf
  <2>3. AcceptedKept'
    BY <2>1, <2>2, KeptFrame DEF MessagesOf
  <2> QED
    BY <2>1, <2>3 DEF Queued
<1>2. CASE LiveStep
  BY <1>2, LiveStepQueued
<1>3. CASE HistoryStep
  BY <1>3, HistoryStepQueued
<1>4. CASE (\E e \in Deliveries : handleEvent(e)) \/ Take \/ EndWorker
  BY <1>4, QueueEndsQueued
<1>5. CASE FailStatement \/ Crash
  BY <1>5, FaultQueued
<1> QED
  BY <1>1, <1>2, <1>3, <1>4, <1>5 DEF Next, WorkerStep

\* No message that the queue accepted before Close is ever forgotten: it is written, on its
\* way, or a fault took it, and after the worker has ended it is not on its way any more.
THEOREM AcceptedCorrect == Spec => []AcceptedKept
<1>1. Queued => AcceptedKept
  BY DEF Queued
<1> QED
  BY <1>1, InitQueued, NextQueued, NextTyped, StoreGrows, ConsistentAlways, PTL DEF Spec

=============================================================================
