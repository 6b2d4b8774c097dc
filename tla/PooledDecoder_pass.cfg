SPECIFICATION FairJobSpec
CONSTANTS
  InCap = 2
  OutCap = 2
  PipeCap = 1
  PipeOutCap = 2
  Burst = 2
  MaxChunks = 4
INVARIANTS TypeOK InputIntact OutputIntact ClosedMeansComplete StandstillsAreKnown
PROPERTIES EffortFalls FinalDrainEnds DropFreesWorker
CHECK_DEADLOCK FALSE
