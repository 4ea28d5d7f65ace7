\* Two logins against a cancel and a logout; no connection events.  The process may come to rest.
SPECIFICATION Spec
CONSTANTS
  a1 = a1
  a2 = a2
  Attempts = {a1, a2}
  NoAttempt = NoAttempt
  Timers = {}
  Devices = {"unpaired"}
  Kinds = {}
  InboxCap = 1
  IpcCap = 1
  MaxEvents = 0
  MaxCancels = 1
  MaxLogouts = 1
  MaxCodes = 0
  MaxCloses = 0
CHECK_DEADLOCK FALSE
SYMMETRY AttemptSymmetry
INVARIANTS TypeOK SlotOwned LoserCancelled
PROPERTIES NoTheft OneLoginAtATime
