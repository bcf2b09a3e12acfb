SPECIFICATION FairSpec
CONSTANTS
  FRAGMENT_SIZE = 2
  MAX_MSGLEN = 5
  Byte <- MCByte
  Messages <- MCMessages
  alternateProtocol = 0
  MaxMessages = 4
  MaxClientCommands = 1
INVARIANTS
  Integrity
  InOrder
  QueueKeepsOrder
  Completable
PROPERTIES
  EventuallySent
  KeepsPromise
CHECK_DEADLOCK FALSE
