CONSTANTS
  RingSize = 8
  Packets <- AllPackets
  Ringed <- InRing
  MaxPackets = 3
SPECIFICATION FairSpec
INVARIANTS
  CarriedOut
PROPERTIES
  WaitsEnd
