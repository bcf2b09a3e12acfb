CONSTANTS
  Players = {p1, p2}
  PlayingTeams = {aliens}
  TEAM_NONE = none
  NoPlayer = NoPlayer
  NoKind = NoKind
  Kinds = {"denybuild", "map", "poll"}
  Polls = {"poll"}
  VotesOf <- Called
  voteDelay <- Delays
  voteThreshold <- Thresholds
  g_impliedVoting = TRUE
  VOTE_TIME = 2
  MaxRejoins = 1
SPECIFICATION FairSpec
INVARIANTS
  CountsRight
  FreshStart
  ExecutedAsPassed
PROPERTIES
  EndsAndIsDone
  DecidedForAll
