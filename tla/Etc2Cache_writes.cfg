CONSTANTS
  NoThread = NoThread
  Size <- Sizes
  Title <- ShortTitle
  Keys = {"car", "road"}
  MemoryLimit = 10
  PendingBound = 0
  Drawers = {"draw"}
  Ahead = {"installer", "preparer"}
  Writers = {"w1"}
  Mishaps = {"write", "close", "root"}
  FilesAtFirst = {"none"}
  MaxSessions = 1
  MaxPending = 1
SPECIFICATION FairSpec
PROPERTIES
  PreparingEnds
  FlushedIsOnDisk
  HandedIsWritten
