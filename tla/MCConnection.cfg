CONSTANTS
  a = a
  b = b
  p = p
  q = q
  Nowhere = Nowhere
  Clients = {a, b}
  Base <- Apart
  Ports = {p}
  InitPort <- OnePort
  QPorts = {1}
  HasPassword = {a}
  sv_maxclients = 2
  sv_privateClients = 1
  MAX_CHALLENGES = 2
  RETRANSMIT_TIMEOUT = 3
  sv_reconnectlimit = 3
  sv_zombietime = 1
  sv_timeout = 2
  Lifetime = 1
  MaxAttempts = 1
  MaxIssued = 2
  MaxTranslations = 0
SPECIFICATION Spec
INVARIANTS
  GameAgrees
PROPERTIES
  NotReset
CHECK_DEADLOCK FALSE
