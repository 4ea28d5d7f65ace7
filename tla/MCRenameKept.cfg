SPECIFICATION Spec
CONSTANTS
  Groups = {"g1"}
  Peers = {"p1"}
  Lids = {"p1"}
  AltOf <- MCAltOf
  Misnamed = {"g1"}
  Raw = {"p1"}
  CacheCap = 1
  MaxPerRun = 0
  MaxListLimit = 2
  MaxEvents = 3
  MaxFaults = 0
PROPERTIES SubjectKept
CHECK_DEADLOCK FALSE
