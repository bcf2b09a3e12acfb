SPECIFICATION FairSpec
CONSTANTS
  Blocks <- OneThreeOne
  Paks <- TwoLevels
  Refused = {3}
  MAX_DOWNLOAD_WINDOW = 2
  MAX_RELIABLE_COMMANDS = 6
  Capacity = 2
  MaxLosses = 3
INVARIANTS Intact Unbroken RoomForCommands
PROPERTIES Downloaded
CHECK_DEADLOCK FALSE
