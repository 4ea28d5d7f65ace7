---------------------------- MODULE MCMessaging ----------------------------
(***************************************************************************)
(* Small instances of Messaging for TLC: one chat, two incoming messages,  *)
(* the first of them older, and one sent from here.                        *)
(***************************************************************************)
EXTENDS Messaging

CONSTANTS c1, m1, m2, s1

MCChatOf == [m \in Messages |-> c1]
MCTime == [m \in Messages |-> CASE m = m1 -> 1 [] m = m2 -> 2 [] m = s1 -> 3]

Event(kind, ids) == [kind |-> kind, chat |-> c1, ids |-> ids, unread |-> 0, ts |-> 0]
Batch(ids, unread, ts) ==
  [kind |-> "history", chat |-> c1, ids |-> ids, unread |-> unread, ts |-> ts]

MCLive ==
  {Event("message", {m1}), Event("message", {m2}), Event("message", {s1}),
   Event("own_read", {m1}), Event("delivered", {s1}), Event("read", {s1})}

MCAll ==
  MCLive \cup {Event("revoke", {m1}), Event("edit", {m1}), Batch({m1, m2}, 1, 2)}

MCIncomingOnly == {Event("message", {m1}), Event("message", {m2})}
MCWithHistory == MCIncomingOnly \cup {Batch({m1}, 1, 1)}

MCHistoryUnread == [c \in {c1} |-> 1]
MCNoHistory == [c \in {c1} |-> 0]
=============================================================================
