\* message.read against the worker.  The process may come to rest.
SPECIFICATION Spec
CONSTANTS
  c1 = c1
  m1 = m1
  m2 = m2
  s1 = s1
  Messages = {m1, m2}
  Incoming = {m1, m2}
  Chats = {c1}
  NoMessage = NoMessage
  ChatOf <- MCChatOf
  Time <- MCTime
  Deliveries <- MCIncomingOnly
  NoEvent = NoEvent
  NoTx = NoTx
  HistoryUnread <- MCNoHistory
  InboxCap = 2
  MaxEvents = 4
  MaxFaults = 0
  MaxReads = 2
  MaxCloses = 0
CHECK_DEADLOCK FALSE
PROPERTIES ReadClears
