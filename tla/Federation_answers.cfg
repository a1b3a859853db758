CONSTANTS
  a1 = a1
  a2 = a2
  b1 = b1
  Servers <- HomeAndHost
  Clients = {a1, a2, b1}
  At <- WhereTheyAre
  Id <- TheirIds
  Hosts = {b1}
  MaxSize = 3
  Breaks = FALSE
  MaxGames = 1
  MaxLinks = 1
  MaxEvents = 3
SPECIFICATION Spec
INVARIANTS
  LeaversAreAnswered
CHECK_DEADLOCK FALSE
