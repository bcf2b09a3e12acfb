CONSTANTS
  MAX_RELIABLE_COMMANDS = 2
  MAX_PACKET_USERCMDS = 2
  cl_packetdup = 1
  Capacity = 2
  MaxCommands = 1
  MaxMoves = 3
SPECIFICATION Spec
INVARIANTS CommandsBeforeMoves MovesInOrder MovesMade
CHECK_DEADLOCK FALSE
