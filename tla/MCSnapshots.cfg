SPECIFICATION Spec
CONSTANTS
  PACKET_BACKUP = 6
  MAX_SNAPSHOT_ENTITIES = 2
  numSnapshotEntities = 5
  Views <- SomeViews
  Capacity = 1
  MaxMessages = 8
  MaxOthers = 2
INVARIANTS Exact Usable
CHECK_DEADLOCK FALSE
