CONSTANTS
  p = p
  q = q
  NoUser = NoUser
  Fds = {1, 2}
  Roles = {"lobby"}
  Personas = {p, q}
  Sizes = {2}
  MaxGames = 1
  MaxConns = 3
  Mishaps = {"late kick"}
SPECIFICATION Spec
INVARIANTS
  LeaversLeave
CHECK_DEADLOCK FALSE
