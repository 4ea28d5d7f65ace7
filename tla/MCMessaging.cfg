\* Messages, receipts, a history batch, message.send and message.read against a fault.  The process may come to rest, or stick inside a history transaction.
SPECIFICATION Spec
CONSTANTS
  c1 = c1
  m1 = m1
  m2 = m2
  s1 = s1
  Messages = {m1, m2, s1}
  Incoming = {m1, m2}
  Chats = {c1}
  NoMessage = NoMessage
  ChatOf <- MCChatOf
  Time <- MCTime
  Deliveries <- MCAll
  NoEvent = NoEvent
  NoTx = NoTx
  HistoryUnread <- MCHistoryUnread
  InboxCap = 2
  MaxEvents = 3
  MaxFaults = 1
  MaxReads = 1
  MaxCloses = 0
CHECK_DEADLOCK FALSE
INVARIANTS TypeOK NewestIsLast PublishedIsPersisted
PROPERTIES MailboxKept
