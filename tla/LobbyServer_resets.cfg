CONSTANTS
  p = p
  q = q
  NoUser = NoUser
  Fds = {1, 2}
  Roles = {"directory", "lobby", "http"}
  Personas = {p, q}
  Sizes = {2}
  MaxGames = 2
  MaxConns = 3
  Mishaps = {"reset", "late kick"}
SPECIFICATION FairSpec
INVARIANTS
  GamesListMembers
  OneLivePersona
PROPERTIES
  HangupsAreSwept
CHECK_DEADLOCK FALSE
