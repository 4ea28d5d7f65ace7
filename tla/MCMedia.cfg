SPECIFICATION FairSpec
CONSTANTS
  Messages = {"l1", "l2", "s1"}
  Digests = {"f1", "f2", "p2"}
  ContentOf <- MCContentOf
  EmbeddedOf <- MCEmbeddedOf
  Embedding = {"l1", "s1"}
  NoFile = "nofile"
  Downloads = {"d1"}
  Own = {"s1"}
  Legacy = {"l1", "l2"}
  PassSize = 2
  MaxDownloads = 1
  MaxDeliveries = 2
  MaxFaults = 1
  MaxRemovals = 1
INVARIANTS TypeOK CacheAgrees AnnouncedOnce PassComplete
PROPERTIES CachedStays Backfilled
CHECK_DEADLOCK FALSE
