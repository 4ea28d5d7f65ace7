\* The worker's queue: what it accepted is written, and Close returns, with live messages,
\* an edit and a history batch against a fault.  No methods.  The process may come to rest.
SPECIFICATION FairSpec
CONSTANTS
  c1 = c1
  m1 = m1
  m2 = m2
  s1 = s1
  Messages = {m1, m2}
  Incoming = {m1, m2}
  Chats = {c1}
  NoMessage = NoMessage
  ChatOf <- MCChatOf
  Time <- MCTime
  Deliveries <- MCWithHistory
  NoEvent = NoEvent
  NoTx = NoTx
  HistoryUnread <- MCHistoryUnread
  InboxCap = 2
  MaxEvents = 4
  MaxFaults = 1
  MaxReads = 0
  MaxCloses = 1
CHECK_DEADLOCK FALSE
INVARIANTS AcceptedKept
PROPERTIES AcceptedIsStored CloseReturns
