CONSTANTS
  NoEntry = NoEntry
  Entries <- PipelineEntries
  Ends <- PipelineEnds
  Size = 6
  Quirks = {"slow", "unmarked", "video", "surface"}
  MaxFrames = 4
  MaxDraws = 1
SPECIFICATION FairSpec
INVARIANTS
  OneFrameInFlight
  AheadByOne
PROPERTIES
  ImplementsQueue
  PartsAreOverdue
  TitleLetGo
  EndedIsShown
  StopEnds
CHECK_DEADLOCK FALSE
