CONSTANTS
  a = a
  b = b
  p = p
  q = q
  Nowhere = Nowhere
  Clients = {a}
  Base <- Apart
  Ports = {p, q}
  InitPort <- OnePort
  QPorts = {1}
  HasPassword = {a}
  sv_maxclients = 2
  sv_privateClients = 1
  MAX_CHALLENGES = 2
  RETRANSMIT_TIMEOUT = 3
  sv_reconnectlimit = 3
  sv_zombietime = 1
  sv_timeout = 1
  Lifetime = 1
  MaxAttempts = 2
  MaxIssued = 2
  MaxTranslations = 2
SPECIFICATION FairSpec
INVARIANTS
  OneSlotEach
  SameChallenge
PROPERTIES
  GetsInOrIsTold
CHECK_DEADLOCK FALSE
