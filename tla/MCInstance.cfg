\* Start-ups, shutdowns and kills of three daemons; the machine may be left without one.
SPECIFICATION Spec
CONSTANTS
  a = a
  b = b
  c = c
  Daemons = {a, b, c}
  Dirs = {"dir"}
  Sockets = {"socket", "other"}
  DirOf <- MCDirOf
  SocketOf <- MCSocketOf
  Latest = 3
  Statements = 2
  MaxStarts = 2
  MaxFaults = 2
INVARIANTS SocketServed
PROPERTIES DataDirKept
SYMMETRY DaemonSymmetry
CHECK_DEADLOCK FALSE
