------------------------------ MODULE Mailbox ------------------------------
(***************************************************************************)
(* What the message tables promise to clients, whatever events, methods,   *)
(* transactions and faults there are: a message enters once, ticks only    *)
(* advance, an edited text stays edited, and a message that came in live   *)
(* is counted at most once and then told at most once.                     *)
(***************************************************************************)
EXTENDS Naturals

CONSTANTS Messages, Incoming, Chats, ChatOf, HistoryUnread

VARIABLES
  tick, text,   \* of each message; tick "none" is a message that is not there
  badge,        \* of each chat
  told,         \* messages clients were told of
  fresh,        \* those that came in live and are still to be told
  uncounted     \* those of them still to be counted

vars == <<tick, text, badge, told, fresh, uncounted>>

Level == [none |-> 0, received |-> 1, sent |-> 1, delivered |-> 2, read |-> 3]

Stored(m) == tick[m] # "none"

FirstTick(m) == IF m \in Incoming THEN "received" ELSE "sent"

Init ==
  /\ tick = [m \in Messages |-> "none"] /\ text = [m \in Messages |-> "original"]
  /\ badge = [c \in Chats |-> 0]
  /\ told = {} /\ fresh = {} /\ uncounted = {}

\* One live message at a time.
Receive(m) ==
  /\ fresh = {} /\ ~Stored(m)
  /\ tick' = [tick EXCEPT ![m] = FirstTick(m)]
  /\ fresh' = {m} /\ uncounted' = {m} \cap Incoming
  /\ UNCHANGED <<text, badge, told>>

Count(m) ==
  /\ m \in uncounted
  /\ badge' = [badge EXCEPT ![ChatOf[m]] = @ + 1]
  /\ uncounted' = uncounted \ {m}
  /\ UNCHANGED <<tick, text, told, fresh>>

Tell(m) ==
  /\ m \in fresh \ uncounted
  /\ told' = told \cup {m}
  /\ fresh' = fresh \ {m}
  /\ UNCHANGED <<tick, text, badge, uncounted>>

\* A fault: what is stored stays, but is not told any more.
Forget ==
  /\ fresh # {}
  /\ fresh' = {} /\ uncounted' = {}
  /\ UNCHANGED <<tick, text, badge, told>>

Send(m) ==
  /\ m \notin Incoming /\ ~Stored(m)
  /\ tick' = [tick EXCEPT ![m] = FirstTick(m)]
  /\ UNCHANGED <<text, badge, told, fresh, uncounted>>

\* A batch of old messages of one chat with the count that comes with it, and edits and
\* revocations among them or of earlier messages, in one step.
Import(c, S, n) ==
  /\ fresh = {}
  /\ \A m \in S : ChatOf[m] = c /\ ~Stored(m)
  /\ tick' = [m \in Messages |-> IF m \in S THEN FirstTick(m) ELSE tick[m]]
  /\ text' \in [Messages -> {"original", "edited", "deleted"}]
  /\ \A m \in Messages : text'[m] # text[m] => text'[m] # "original" /\ (Stored(m) \/ m \in S)
  /\ badge' = [badge EXCEPT ![c] = n]
  /\ UNCHANGED <<told, fresh, uncounted>>

Advance(S, t) ==
  /\ \A m \in S : Stored(m) /\ Level[tick[m]] <= Level[t]
  /\ tick' = [m \in Messages |-> IF m \in S THEN t ELSE tick[m]]
  /\ UNCHANGED <<text, badge, told, fresh, uncounted>>

Rewrite(S, t) ==
  /\ \A m \in S : Stored(m)
  /\ text' = [m \in Messages |-> IF m \in S THEN t ELSE text[m]]
  /\ UNCHANGED <<tick, badge, told, fresh, uncounted>>

Clear(c) ==
  /\ badge' = [badge EXCEPT ![c] = 0]
  /\ UNCHANGED <<tick, text, told, fresh, uncounted>>

Next ==
  \/ \E m \in Messages : Receive(m) \/ Count(m) \/ Tell(m) \/ Send(m)
  \/ Forget
  \/ \E c \in Chats, S \in SUBSET Messages : \E n \in 0..HistoryUnread[c] : Import(c, S, n)
  \/ \E S \in SUBSET Messages, t \in {"delivered", "read"} : Advance(S, t)
  \/ \E S \in SUBSET Messages, t \in {"edited", "deleted"} : Rewrite(S, t)
  \/ \E c \in Chats : Clear(c)

Spec == Init /\ [][Next]_vars

=============================================================================
