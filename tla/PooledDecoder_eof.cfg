SPECIFICATION FairJobSpec
CONSTANTS
  InCap = 5
  OutCap = 8
  PipeCap = 1
  PipeOutCap = 8
  Burst = 1
  MaxChunks = 3
PROPERTIES WorkerFinishes
CHECK_DEADLOCK FALSE
