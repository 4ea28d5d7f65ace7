\* One login, a ban timer and eight kinds of events with queues of one place, closed at any moment.
SPECIFICATION FairSpec
CONSTANTS
  a1 = a1
  Attempts = {a1}
  NoAttempt = NoAttempt
  r1 = r1
  Timers = {r1}
  Devices = {"paired"}
  Kinds = {"connected", "disconnected", "keepalive_timeout", "keepalive_restored", "logged_out", "stream_replaced", "client_outdated", "ban_timed"}
  InboxCap = 1
  IpcCap = 1
  MaxEvents = 2
  MaxCancels = 0
  MaxLogouts = 0
  MaxCodes = 0
  MaxCloses = 1
INVARIANTS ShutdownQuiet BanSurvivesDisconnect
PROPERTIES CloseTerminates LoginEnds BanRecovered HandlerUnblocked
