CONSTANTS
  p = p
  q = q
  NoUser = NoUser
  Fds = {1, 2, 3}
  Roles = {"lobby"}
  Personas = {p, q}
  Sizes = {2}
  MaxGames = 2
  MaxConns = 4
  Mishaps = {}
SPECIFICATION Spec
INVARIANTS
  MembersAgree
  HostLeads
PROPERTIES
  LockedGameClosed
CHECK_DEADLOCK FALSE
