CONSTANTS
  MAX_RELIABLE_COMMANDS = 1
  PACKET_BACKUP = 1
  Capacity = 1
  MaxCommands = 2
  MaxServerId = 3
  MaxRestarts = 0
SPECIFICATION FairSpec
INVARIANTS
  OverflowDrops
PROPERTIES
  GetsIntoLevel
  Delivered
CHECK_DEADLOCK FALSE
