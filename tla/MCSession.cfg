CONSTANTS
  MAX_RELIABLE_COMMANDS = 2
  PACKET_BACKUP = 1
  Capacity = 1
  MaxCommands = 3
  MaxServerId = 3
  MaxRestarts = 1
SPECIFICATION Spec
INVARIANTS
  SessionInv
  OwnLevel
  InOrder
  CommandsBeforeSnapshot
PROPERTY
  KeepsPromise
CHECK_DEADLOCK FALSE
