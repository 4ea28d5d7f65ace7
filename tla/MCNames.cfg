SPECIFICATION FairSpec
CONSTANTS
  Groups = {"g1", "g2"}
  Peers = {"p1"}
  Lids = {"p1"}
  AltOf <- MCAltOf
  Misnamed = {"g1"}
  Raw = {"p1"}
  CacheCap = 1
  MaxPerRun = 1
  MaxListLimit = 2
  MaxEvents = 2
  MaxFaults = 1
INVARIANTS TypeOK TrueName
PROPERTIES LearnsName
CHECK_DEADLOCK FALSE
