SPECIFICATION FairJobSpec
CONSTANTS
  InCap = 1
  OutCap = 1
  PipeCap = 5
  PipeOutCap = 8
  Burst = 2
  MaxChunks = 3
PROPERTIES DropLetsWorkerFinish
CHECK_DEADLOCK FALSE
