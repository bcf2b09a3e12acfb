CONSTANTS
  MAX_RELIABLE_COMMANDS = 2
  MAX_PACKET_USERCMDS = 2
  cl_packetdup = 0
  Capacity = 3
  MaxCommands = 3
  MaxMoves = 0
SPECIFICATION FairSpec
INVARIANTS NothingLost DisconnectHeard
PROPERTIES KeepsPromise Delivered
CHECK_DEADLOCK FALSE
