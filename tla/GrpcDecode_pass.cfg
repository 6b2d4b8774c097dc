SPECIFICATION FairGrpcSpec
CONSTANTS
  InCap = 2
  OutCap = 1
  PipeCap = 1
  PipeOutCap = 1
  Burst = 1
  MaxChunks = 4
  Bad = {1}
  MaxTries = 1
  MaxSegments = 2
INVARIANTS CallRestsWhenDone ResponsesInOrder NothingCollectedIsLost
PROPERTIES DrainEnds ShutdownEndsCall
CHECK_DEADLOCK FALSE
