---------------------------- MODULE MessageStore ----------------------------
(***************************************************************************)
(* The message tables of the daemon (internal/database/repo.go) and what   *)
(* each statement makes of them.  A store is a record; a statement is an   *)
(* operator from a store to the store after it, so that the live handlers  *)
(* and a history transaction share them.                                   *)
(*                                                                         *)
(* Kept of a message: whether its row exists and with which status, and    *)
(* whether its text was edited or revoked.  Kept of a chat: its row, last  *)
(* message, last timestamp (0 is NULL) and unread counter.  The tables of  *)
(* names, media, reactions and receipts are left out; nothing here reads   *)
(* them.                                                                   *)
(***************************************************************************)
EXTENDS Naturals, FiniteSets

CONSTANTS
  Messages,     \* message IDs
  Incoming,     \* those that others sent (from_me = 0); the rest is sent from here
  Chats,
  NoMessage,    \* a chat without last message
  ChatOf, Time  \* the chat and the timestamp of each message

ASSUME MessagesAssumption ==
  /\ IsFiniteSet(Messages) /\ Incoming \subseteq Messages /\ NoMessage \notin Messages
  /\ ChatOf \in [Messages -> Chats] /\ Time \in [Messages -> Nat]

\* cae_messages.status; "none" is no row, "received" the empty status of an incoming row.
Statuses == {"none", "received", "sent", "delivered", "read"}

Stores ==
  [status : [Messages -> Statuses],
   body   : [Messages -> {"original", "edited", "deleted"}],
   known  : SUBSET Chats,
   last   : [Chats -> Messages \cup {NoMessage}],
   ts     : [Chats -> Nat],
   unread : [Chats -> Nat]]

EmptyStore ==
  [status |-> [m \in Messages |-> "none"], body |-> [m \in Messages |-> "original"],
   known |-> {}, last |-> [c \in Chats |-> NoMessage],
   ts |-> [c \in Chats |-> 0], unread |-> [c \in Chats |-> 0]]

Exists(s, m) == s.status[m] # "none"

InitialStatus(m) == IF m \in Incoming THEN "received" ELSE "sent"

UpsertChat(s, c) == [s EXCEPT !.known = @ \cup {c}]

\* Wrong variant: ON CONFLICT replaces the row.
InsertMessage_Replaces(s, m) ==
  IF ChatOf[m] \in s.known
    THEN [s EXCEPT !.status[m] = InitialStatus(m), !.body[m] = "original"]
    ELSE s

\* ON CONFLICT DO NOTHING; the caller learns whether the row is new from Exists before it.
\* The foreign key makes the statement fail without the chat's row.
InsertMessage(s, m) ==
  IF ChatOf[m] \in s.known /\ ~Exists(s, m)
    THEN [s EXCEPT !.status[m] = InitialStatus(m)]
    ELSE s

\* Wrong variant: the last message arrived wins, whatever its timestamp.
UpdateChatLastMessage_LastArrived(s, m) ==
  [s EXCEPT !.last[ChatOf[m]] = m, !.ts[ChatOf[m]] = Time[m]]

\* An UPDATE of a chat without a row changes nothing, here and below.
UpdateChatLastMessage(s, m) ==
  IF ChatOf[m] \in s.known /\ Time[m] >= s.ts[ChatOf[m]]
    THEN [s EXCEPT !.last[ChatOf[m]] = m, !.ts[ChatOf[m]] = Time[m]]
    ELSE s

SetChatLastTimestamp(s, c, t) ==
  IF c \in s.known /\ t >= s.ts[c] THEN [s EXCEPT !.ts[c] = t] ELSE s

IncrementUnread(s, c) ==
  IF c \in s.known THEN [s EXCEPT !.unread[c] = @ + 1] ELSE s

SetUnread(s, c, n) ==
  IF c \in s.known THEN [s EXCEPT !.unread[c] = n] ELSE s

MarkChatRead(s, c) == SetUnread(s, c, 0)

\* Wrong variant: a late delivery receipt takes the read mark back.
SetMessagesStatus_Downgrades(s, ids, status) ==
  [s EXCEPT !.status = [m \in Messages |->
     IF m \in ids /\ Exists(s, m) THEN status ELSE s.status[m]]]

\* "delivered" never replaces "read".
SetMessagesStatus(s, ids, status) ==
  [s EXCEPT !.status = [m \in Messages |->
     IF m \in ids /\ Exists(s, m) /\ ~(status = "delivered" /\ s.status[m] = "read")
       THEN status ELSE s.status[m]]]

SetMessageEdited(s, ids) ==
  [s EXCEPT !.body = [m \in Messages |->
     IF m \in ids /\ Exists(s, m) THEN "edited" ELSE s.body[m]]]

SetMessageDeleted(s, ids) ==
  [s EXCEPT !.body = [m \in Messages |->
     IF m \in ids /\ Exists(s, m) THEN "deleted" ELSE s.body[m]]]

\* Wrong variant: from_me is not looked at.
PendingIncomingMessages_OwnToo(s, c) ==
  {m \in Messages : ChatOf[m] = c /\ Exists(s, m) /\ s.status[m] # "read"}

PendingIncomingMessages(s, c) ==
  {m \in Incoming : ChatOf[m] = c /\ Exists(s, m) /\ s.status[m] # "read"}

=============================================================================
