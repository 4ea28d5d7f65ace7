\* Two peers and one slot, a cache with room for one entry.  The peers may be left alone for ever.
SPECIFICATION FairSpec
CONSTANTS
  Jids = {"j1", "j2"}
  Unnamed = {"j2"}
  Listers = {"l1"}
  Fetchers = {"f1", "f2"}
  MaxInflight = 1
  CacheCap = 1
  MaxEvents = 1
  MaxFaults = 1
INVARIANTS TypeOK InFlight
PROPERTIES PictureArrives PoolKept
CHECK_DEADLOCK FALSE
