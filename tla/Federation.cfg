CONSTANTS
  a1 = a1
  a2 = a2
  b1 = b1
  Servers <- HomeAndHost
  Clients = {a1, a2, b1}
  At <- WhereTheyAre
  Id <- TheirIds
  Hosts = {b1}
  MaxSize = 3
  Breaks = TRUE
  MaxGames = 1
  MaxLinks = 2
  MaxEvents = 4
SPECIFICATION Spec
INVARIANTS
  TypeOK
  MembersAgree
  EndsAgree
  PlayersAreTold
  PlayersAreAnswered
  GoneLinksAreLeft
CHECK_DEADLOCK FALSE
