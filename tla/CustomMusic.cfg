CONSTANTS
  Songs <- MCSongs
  Sorted <- MCSorted
  Slots = 2
  Own <- MCOwn
  MaxChanges = 2
SPECIFICATION FairSpec
INVARIANTS
  ShownIsPlayed
  GamesSongsKept
  PageInFiles
PROPERTIES
  FolderIsShown
