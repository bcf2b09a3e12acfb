SPECIFICATION FairSpec
CONSTANTS
  Blocks <- OneThreeOne
  Paks <- OneLevel
  Refused = {}
  MAX_DOWNLOAD_WINDOW = 2
  MAX_RELIABLE_COMMANDS = 6
  Capacity = 2
  MaxLosses = 2
PROPERTIES Loads
CHECK_DEADLOCK FALSE
