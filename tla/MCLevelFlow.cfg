CONSTANTS
  Rotations = {"a", "b"}
  Files <- SomeFiles
  Maps = {"m1", "m2", "m3"}
  NOT_ROTATING = "none"
  NoMap = ""
  WarnDepth = 3
  StopDepth = 6
  StackSize = 2
  Players = {"p1", "p2"}
  Console = "console"
  Pool = {"m1", "m2", "m3"}
  MAX_PLAYMAP_QUEUE_ENTRIES = 3
SPECIFICATION FairSpec
PROPERTIES
  AnotherLevel
  PlayedInTurn
  KeepsPromise
