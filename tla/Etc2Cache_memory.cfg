CONSTANTS
  NoThread = NoThread
  Size <- Sizes
  Title <- Titles
  Keys = {"car", "road", "sky"}
  MemoryLimit = 3
  PendingBound = 0
  Drawers = {"draw"}
  Ahead = {"installer"}
  Writers = {w1, w2}
  Mishaps = {"write", "root", "end"}
  FilesAtFirst = {"none", "short"}
  MaxSessions = 2
  MaxPending = 1
SPECIFICATION Spec
SYMMETRY WriterSymmetry
INVARIANTS
  AnswersAreWhole
  OrderNamesEntries
  BytesAreHeld
  MemoryBounded
PROPERTIES
  FilesArriveWhole
