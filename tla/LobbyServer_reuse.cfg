CONSTANTS
  p = p
  q = q
  NoUser = NoUser
  Fds = {1, 2}
  Roles = {"lobby"}
  Personas = {p, q}
  Sizes = {2}
  MaxGames = 1
  MaxConns = 3
  Mishaps = {"reset"}
SPECIFICATION Spec
INVARIANTS
  NewcomersInNoGame
CHECK_DEADLOCK FALSE
